---- MODULE Spec2Model ----
(***************************************************************************)
(* Double-entry bookkeeping engine: the in-memory Database (accounts and   *)
(* journal entries), the REST routes and the tool-call (JSON-RPC) server   *)
(* that mutate it, and the ledger projections derived from it.             *)
(*                                                                         *)
(* Conventions of the model                                                *)
(*  - money is an integer number of thousandths (0.001), so that the       *)
(*    0.01 tolerance of the code is Tolerance = 10 and amounts that differ *)
(*    by less than the tolerance exist;                                    *)
(*  - a JavaScript value that the code does arithmetic on is a record      *)
(*    [k, v]: a number, undefined or NaN (see Num, Undefined, NaN);        *)
(*  - uuidv4() is a counter: every call yields an id never seen before;    *)
(*  - strings that may be absent from a request body use Undef;            *)
(*  - timestamps (createdAt, updatedAt), parentId and the uuids of the     *)
(*    lines are not modelled: no operation reads them;                     *)
(*  - handlers run to completion one at a time (a single-threaded event    *)
(*    loop): a handler is one action, which records the request it served  *)
(*    and the response it wrote; ClientReadsResponse then clears both;     *)
(*  - inflight holds two REST requests that have been received and whose   *)
(*    handlers have not run yet, with their responses (SpecConcurrent);    *)
(*  - buffer, pendingLines and stdout are the state of the stdio loop of   *)
(*    the tool server: the text after the last newline, the lines the      *)
(*    running data callback has still to process, and the responses        *)
(*    written (SpecStdio).                                                 *)
(***************************************************************************)
EXTENDS Integers, Sequences, FiniteSets, TLC

VARIABLES accounts, journalEntries, uuidCount, request, response,
          inflight, buffer, pendingLines, stdout

vars == <<accounts, journalEntries, uuidCount, request, response,
          inflight, buffer, pendingLines, stdout>>

store == <<accounts, journalEntries>>

(***************************************************************************)
(* Bounds                                                                  *)
(***************************************************************************)
\* number of uuidv4() calls for accounts and entries the model follows
MaxUuids == 2

\* number of symbols of an unfinished line the model lets buffer hold
MaxBuffer == 2

\* number of responses the model lets wait on stdout
MaxStdout == 2

(***************************************************************************)
(* JavaScript values                                                       *)
(***************************************************************************)
Num(n) == [k |-> "number", v |-> n]

Undefined == [k |-> "undefined", v |-> 0]

NaN == [k |-> "NaN", v |-> 0]

IsNum(x) == x.k = "number"

\* a + b
JsAdd(a, b) == IF IsNum(a) /\ IsNum(b) THEN Num(a.v + b.v) ELSE NaN

\* a - b
JsSub(a, b) == IF IsNum(a) /\ IsNum(b) THEN Num(a.v - b.v) ELSE NaN

\* -a
JsNeg(a) == IF IsNum(a) THEN Num(0 - a.v) ELSE NaN

\* a || 0 : undefined, NaN and 0 are falsy
OrZero(a) == IF IsNum(a) /\ a.v # 0 THEN a ELSE Num(0)

\* a > 0 : false for undefined and NaN
JsPositive(a) == IsNum(a) /\ a.v > 0

\* Math.abs(a)
JsAbs(a) == IF IsNum(a) THEN Num(IF a.v < 0 THEN 0 - a.v ELSE a.v) ELSE NaN

\* an absent (or empty) string field of a request body: falsy
Undef == "<undefined>"

Truthy(s) == s # Undef /\ s # ""

\* 0.01 in thousandths
Tolerance == 10

\* a > 0.01 : false for NaN
ExceedsTolerance(a) == IsNum(a) /\ a.v > Tolerance

\* whole currency units in thousandths
Yen(n) == n * 1000

(***************************************************************************)
(* Dates: strings compared lexicographically.  DateOrder lists the strings *)
(* the model uses in lexicographic order; an undefined date compares false *)
(* with everything.                                                        *)
(***************************************************************************)
DateOrder == <<"01/15/2024", "2024-01-15", "2024-02-15", "2024-03-31">>

DateRank(d) == CHOOSE i \in 1..Len(DateOrder) : DateOrder[i] = d

\* a <= b on strings; false when either side is undefined
StrLE(a, b) == a # Undef /\ b # Undef /\ DateRank(a) <= DateRank(b)

\* /^\d{4}-\d{2}-\d{2}$/.test(date)
dateRegexTest(d) == d \in {"2024-01-15", "2024-02-15", "2024-03-31"}

(***************************************************************************)
(* Seed chart of accounts.  The uuids of the seed accounts are drawn once, *)
(* when the module is loaded: ids 1..19.                                   *)
(***************************************************************************)
Acc(i, c, n, t, g) == [id |-> i, code |-> c, name |-> n, type |-> t, category |-> g]

STANDARD_ACCOUNTS ==
  << Acc(1, "100", "Genkin", "asset", "RyudoShisan"),
     Acc(2, "101", "Yokin", "asset", "RyudoShisan"),
     Acc(3, "110", "Urikakekin", "asset", "RyudoShisan"),
     Acc(4, "120", "Shohin", "asset", "RyudoShisan"),
     Acc(5, "150", "Bihin", "asset", "KoteiShisan"),
     Acc(6, "160", "Tatemono", "asset", "KoteiShisan"),
     Acc(7, "200", "Kaikakekin", "liability", "RyudoFusai"),
     Acc(8, "210", "Miharaikin", "liability", "RyudoFusai"),
     Acc(9, "250", "Kariirekin", "liability", "KoteiFusai"),
     Acc(10, "300", "Shihonkin", "equity", "Shihonkin"),
     Acc(11, "310", "RiekiJoyokin", "equity", "Joyokin"),
     Acc(12, "400", "Uriage", "revenue", "Uriagedaka"),
     Acc(13, "410", "Zasshunyu", "revenue", "EigyogaiShueki"),
     Acc(14, "500", "Shiire", "expense", "UriageGenka"),
     Acc(15, "510", "Kyuryo", "expense", "HankanHi"),
     Acc(16, "520", "KokokuSendenhi", "expense", "HankanHi"),
     Acc(17, "530", "RyohiKotsuhi", "expense", "HankanHi"),
     Acc(18, "540", "Shomohinhi", "expense", "HankanHi"),
     Acc(19, "550", "GenkaShokyakuhi", "expense", "HankanHi") >>

\* the id the next uuidv4() call returns
uuidv4 == Len(STANDARD_ACCOUNTS) + uuidCount + 1

(***************************************************************************)
(* Database: accounts                                                      *)
(***************************************************************************)
SeqToSet(s) == {s[i] : i \in DOMAIN s}

\* Array.prototype.findIndex: the first index whose element has the id, 0 for -1
findIndex(s, id) ==
  IF \E i \in DOMAIN s : s[i].id = id
  THEN CHOOSE i \in DOMAIN s : s[i].id = id /\ \A j \in 1..(i - 1) : s[j].id # id
  ELSE 0

\* Array.prototype.splice(index, 1)
splice(s, index) == [j \in 1..(Len(s) - 1) |-> IF j < index THEN s[j] ELSE s[j + 1]]

\* getAccountById(id) is defined
hasAccountById(id) == \E i \in DOMAIN accounts : accounts[i].id = id

getAccountById(id) == accounts[findIndex(accounts, id)]

\* the lookup comparing the name instead of the code
hasAccountByCode_byName(code) == \E i \in DOMAIN accounts : accounts[i].name = code

\* getAccountByCode(code) is defined
hasAccountByCode(code) == \E i \in DOMAIN accounts : accounts[i].code = code

getAccountByCode(code) ==
  accounts[CHOOSE i \in DOMAIN accounts :
             accounts[i].code = code /\ \A j \in 1..(i - 1) : accounts[j].code # code]

db_createAccount(code, name, type, category) ==
  Append(accounts, Acc(uuidv4, code, name, type, category))

\* { ...this.accounts[index], ...updates }: a key present in updates
\* overwrites, also when its value is undefined
db_updateAccount(id, updates) ==
  [accounts EXCEPT ![findIndex(accounts, id)] =
     [id |-> @.id,
      code |-> IF "code" \in DOMAIN updates THEN updates.code ELSE @.code,
      name |-> IF "name" \in DOMAIN updates THEN updates.name ELSE @.name,
      type |-> IF "type" \in DOMAIN updates THEN updates.type ELSE @.type,
      category |-> IF "category" \in DOMAIN updates THEN updates.category ELSE @.category]]

\* the usage check answering for the journal as a whole
isUsed_anyEntry(id) == journalEntries # <<>>

\* this.journalEntries.some(entry => entry.lines.some(line => line.accountId === id))
isUsed(id) ==
  \E e \in DOMAIN journalEntries :
    \E l \in DOMAIN journalEntries[e].lines : journalEntries[e].lines[l].accountId = id

\* deleteAccount without the usage check
db_deleteAccount_ok_unguarded(id) == findIndex(accounts, id) # 0

\* the value deleteAccount returns
db_deleteAccount_ok(id) == ~isUsed(id) /\ findIndex(accounts, id) # 0

\* deleteAccount removing the account before it looks for its use
db_deleteAccount_spliceFirst(id) ==
  IF findIndex(accounts, id) # 0 THEN splice(accounts, findIndex(accounts, id)) ELSE accounts

\* the accounts deleteAccount leaves
db_deleteAccount(id) ==
  IF db_deleteAccount_ok(id) THEN splice(accounts, findIndex(accounts, id)) ELSE accounts

(***************************************************************************)
(* Requests and responses.  request is the request being answered (op,     *)
(* the :id path parameter, the body), response the answer: status is the   *)
(* HTTP status (0 on the tool-call surface), error the error message ("" *)
(* when there is none), code the JSON-RPC error code (0 when the response  *)
(* has no error member).                                                   *)
(***************************************************************************)
NoRequest == [op |-> "none", id |-> 0, body |-> <<>>]

NoResponse == [surface |-> "none", status |-> 0, error |-> "", code |-> 0]

Req(op, id, body) == [op |-> op, id |-> id, body |-> body]

\* res.status(status).json({ error }) or .json({ data }) or .send()
Rest(status, error) == [surface |-> "rest", status |-> status, error |-> error, code |-> 0]

\* a JSON-RPC response whose result is { success: error = "", error }
McpResult(error) == [surface |-> "mcp", status |-> 0, error |-> error, code |-> 0]

\* a JSON-RPC response with an error member
McpError(code, message) == [surface |-> "mcp", status |-> 0, error |-> message, code |-> code]

\* a place for a request that has been received: the request and, once
\* its handler has run, the response
EmptySlot == [request |-> NoRequest, response |-> NoResponse]

\* the server is between two requests
Idle == request = NoRequest

Init ==
  /\ accounts = STANDARD_ACCOUNTS
  /\ journalEntries = <<>>
  /\ uuidCount = 0
  /\ request = NoRequest
  /\ response = NoResponse
  /\ inflight = [k \in 1..2 |-> EmptySlot]
  /\ buffer = <<>>
  /\ pendingLines = <<>>
  /\ stdout = <<>>

\* the client takes the response; the server turns to the next request
ClientReadsResponse ==
  /\ ~Idle
  /\ request' = NoRequest
  /\ response' = NoResponse
  /\ UNCHANGED <<accounts, journalEntries, uuidCount>>
  /\ UNCHANGED <<inflight, buffer, pendingLines, stdout>>

(***************************************************************************)
(* REST: accounts                                                          *)
(***************************************************************************)
AccountBody(c, n, t, g) == [code |-> c, name |-> n, type |-> t, category |-> g]

\* the bodies of POST /accounts
PostAccountsInputs ==
  { AccountBody("900", "Kogane", "asset", "Sonota"),
    AccountBody("900", "Kogane", "bogus", "Sonota"),
    AccountBody("100", "Kogane", "asset", "Sonota"),
    AccountBody("100", Undef, "asset", "Sonota"),
    AccountBody(Undef, "Kogane", "asset", "Sonota"),
    AccountBody("", "Kogane", "asset", "Sonota"),
    AccountBody("900", Undef, "asset", "Sonota"),
    AccountBody("900", "Kogane", Undef, "Sonota"),
    AccountBody("900", "Kogane", "asset", Undef) }

\* router.post('/accounts')
PostAccounts ==
  \E body \in PostAccountsInputs :
    /\ Idle
    /\ request' = Req("POST /accounts", 0, body)
    /\ IF ~Truthy(body.code) \/ ~Truthy(body.name) \/ ~Truthy(body.type)
          \/ ~Truthy(body.category)
       THEN /\ response' = Rest(400, "Missing required fields")
            /\ UNCHANGED <<accounts, journalEntries, uuidCount>>
       ELSE IF hasAccountByCode(body.code)
       THEN /\ response' = Rest(400, "Account code already exists")
            /\ UNCHANGED <<accounts, journalEntries, uuidCount>>
       ELSE /\ uuidCount < MaxUuids
            /\ accounts' = db_createAccount(body.code, body.name, body.type, body.category)
            /\ uuidCount' = uuidCount + 1
            /\ response' = Rest(201, "")
            /\ UNCHANGED journalEntries
    /\ UNCHANGED <<inflight, buffer, pendingLines, stdout>>

\* ids a client names: seed accounts, the ids uuidv4() has handed out, and
\* an id no account or entry has
UnknownIds == {999}

CreatedIds == {Len(STANDARD_ACCOUNTS) + i : i \in 1..uuidCount}

UpdateAccountIdInputs == {2} \cup UnknownIds

DeleteAccountIdInputs == {1} \cup CreatedIds \cup UnknownIds

AccountPatch(n, g, c, t) == [name |-> n, category |-> g, code |-> c, type |-> t]

\* the bodies of PUT /accounts/:id: only a name, a name and a category, and
\* a body that also names a code and a type
PutAccountInputs ==
  { AccountPatch("Renamed", Undef, Undef, Undef),
    AccountPatch("Renamed", "Recat", Undef, Undef),
    AccountPatch("Renamed", "Recat", "999", "liability") }

\* the whole body handed to updateAccount
accountUpdates_wholeBody(body) == body

\* const { name, category } = req.body; updateAccount(id, { name, category })
accountUpdates(body) == [name |-> body.name, category |-> body.category]

\* router.put('/accounts/:id')
PutAccount ==
  \E id \in UpdateAccountIdInputs, body \in PutAccountInputs :
    /\ Idle
    /\ request' = Req("PUT /accounts/:id", id, body)
    /\ IF findIndex(accounts, id) = 0
       THEN /\ response' = Rest(404, "Account not found")
            /\ UNCHANGED <<accounts, journalEntries, uuidCount>>
       ELSE /\ accounts' = db_updateAccount(id, accountUpdates(body))
            /\ response' = Rest(200, "")
            /\ UNCHANGED <<journalEntries, uuidCount>>
    /\ UNCHANGED <<inflight, buffer, pendingLines, stdout>>

\* router.delete('/accounts/:id')
DeleteAccount ==
  \E id \in DeleteAccountIdInputs :
    /\ Idle
    /\ request' = Req("DELETE /accounts/:id", id, <<>>)
    /\ accounts' = db_deleteAccount(id)
    /\ response' = IF db_deleteAccount_ok(id)
                   THEN Rest(204, "")
                   ELSE Rest(400, "Cannot delete account: not found or in use")
    /\ UNCHANGED <<journalEntries, uuidCount>>
    /\ UNCHANGED <<inflight, buffer, pendingLines, stdout>>

(***************************************************************************)
(* Database: journal entries                                               *)
(***************************************************************************)
\* the stored line with the two amounts exchanged
storedLine_swapped(line) ==
  [accountId |-> line.accountId,
   accountName |-> IF hasAccountById(line.accountId)
                   THEN getAccountById(line.accountId).name ELSE Undef,
   debitAmount |-> line.creditAmount,
   creditAmount |-> line.debitAmount]

\* the line createJournalEntry stores: the submitted fields and the
\* account's name (account?.name)
storedLine(line) ==
  [accountId |-> line.accountId,
   accountName |-> IF hasAccountById(line.accountId)
                   THEN getAccountById(line.accountId).name ELSE Undef,
   debitAmount |-> line.debitAmount,
   creditAmount |-> line.creditAmount]

db_createJournalEntry(date, description, lines) ==
  Append(journalEntries,
         [id |-> uuidv4, date |-> date, description |-> description,
          lines |-> [i \in DOMAIN lines |-> storedLine(lines[i])]])

\* { ...this.journalEntries[index], ...updates }: a key present in updates
\* overwrites, also when its value is undefined
db_updateJournalEntry(id, date, description) ==
  [journalEntries EXCEPT ![findIndex(journalEntries, id)] =
     [@ EXCEPT !.date = date, !.description = description]]

\* this.journalEntries.find((entry) => entry.id === id), for an id that is stored
getJournalEntryById(id) == journalEntries[findIndex(journalEntries, id)]

\* the id of the entry the last create returned: the last uuid handed out
createdEntryId == Len(STANDARD_ACCOUNTS) + uuidCount

db_deleteJournalEntry(id) == splice(journalEntries, findIndex(journalEntries, id))

(***************************************************************************)
(* REST: journal entries                                                   *)
(***************************************************************************)
RL(a, d, c) == [accountId |-> a, debitAmount |-> d, creditAmount |-> c]

\* the line arrays a REST client submits
RestLinesInputs ==
  { \* cash 10000 / sales 10000
    << RL(1, Num(Yen(10000)), Num(0)), RL(12, Num(0), Num(Yen(10000))) >>,
    \* credit 0.005 above the debit
    << RL(1, Num(Yen(10000)), Num(0)), RL(12, Num(0), Num(Yen(10000) + 5)) >>,
    \* purchase paid in cash
    << RL(14, Num(Yen(10000)), Num(0)), RL(1, Num(0), Num(Yen(10000))) >>,
    \* the same with the zero amounts left out of the body
    << RL(14, Num(Yen(10000)), Undefined), RL(1, Undefined, Num(Yen(10000))) >>,
    \* both amounts zero on every line
    << RL(1, Num(0), Num(0)), RL(12, Num(0), Num(0)) >>,
    \* negative amounts
    << RL(1, Num(0 - Yen(10000)), Num(0)), RL(12, Num(0), Num(0 - Yen(10000))) >>,
    \* debit 10000, credit 9000
    << RL(1, Num(Yen(10000)), Num(0)), RL(12, Num(0), Num(Yen(9000))) >>,
    \* debit and credit on the same line, totals equal
    << RL(1, Num(Yen(10000)), Num(Yen(10000))), RL(12, Num(0), Num(0)) >>,
    \* debit and credit on the same line, totals unequal
    << RL(1, Num(Yen(10000)), Num(Yen(10000))), RL(12, Num(0), Num(Yen(9000))) >>,
    \* a line on an account that does not exist
    << RL(1, Num(Yen(10000)), Num(0)), RL(999, Num(0), Num(Yen(10000))) >>,
    << RL(999, Num(Yen(10000)), Num(0)), RL(12, Num(0), Num(Yen(9000))) >>,
    \* one line
    << RL(1, Num(Yen(10000)), Num(0)) >>,
    << RL(1, Num(0), Num(0)) >>,
    << RL(999, Num(0), Num(0)) >>,
    \* no line
    << >> }

EntryBody(d, s, isArray, ls) ==
  [date |-> d, description |-> s, linesIsArray |-> isArray, lines |-> ls]

\* the bodies of POST /journal-entries: every line array under one date, a
\* later date, and bodies that miss the date, the description or the lines
PostJournalEntriesInputs ==
  { EntryBody("2024-01-15", "memo", TRUE, ls) : ls \in RestLinesInputs }
  \cup
  { EntryBody("2024-02-15", "memo", TRUE,
              << RL(1, Num(Yen(10000)), Num(0)), RL(12, Num(0), Num(Yen(10000))) >>),
    EntryBody(Undef, "memo", TRUE,
              << RL(1, Num(Yen(10000)), Num(0)), RL(12, Num(0), Num(Yen(9000))) >>),
    EntryBody(Undef, "memo", TRUE, << RL(1, Num(Yen(10000)), Num(0)) >>),
    EntryBody("2024-01-15", Undef, TRUE,
              << RL(1, Num(Yen(10000)), Num(0)), RL(12, Num(0), Num(Yen(10000))) >>),
    EntryBody("2024-01-15", "memo", FALSE, << >>),
    \* a date that is not of the form YYYY-MM-DD, with unequal totals
    EntryBody("01/15/2024", "memo", TRUE,
              << RL(1, Num(Yen(10000)), Num(0)), RL(12, Num(0), Num(Yen(9000))) >>) }

\* lines.reduce((sum, line) => sum + (line.debitAmount || 0), 0)
RECURSIVE sumDebitOrZero(_)
sumDebitOrZero(lines) ==
  IF lines = <<>> THEN Num(0)
  ELSE JsAdd(sumDebitOrZero(SubSeq(lines, 1, Len(lines) - 1)),
             OrZero(lines[Len(lines)].debitAmount))

\* lines.reduce((sum, line) => sum + (line.creditAmount || 0), 0)
RECURSIVE sumCreditOrZero(_)
sumCreditOrZero(lines) ==
  IF lines = <<>> THEN Num(0)
  ELSE JsAdd(sumCreditOrZero(SubSeq(lines, 1, Len(lines) - 1)),
             OrZero(lines[Len(lines)].creditAmount))

\* lines.length < 2, with 1 for 2
tooFewLines_one(lines) == Len(lines) < 1

\* lines.length < 2
tooFewLines(lines) == Len(lines) < 2

\* the loop of the account check, looking at the first line only
unknownAccount_firstOnly(lines) == ~hasAccountById(lines[1].accountId)

\* for (line of lines) if (!db.getAccountById(line.accountId)) return 400
unknownAccount(lines) == \E i \in DOMAIN lines : ~hasAccountById(lines[i].accountId)

\* the balance check without Math.abs, credits minus debits
unbalanced_signed(lines) ==
  ExceedsTolerance(JsSub(sumCreditOrZero(lines), sumDebitOrZero(lines)))

\* the balance check left out
unbalanced_never(lines) == FALSE

\* Math.abs(totalDebit - totalCredit) > 0.01
unbalanced(lines) ==
  ExceedsTolerance(JsAbs(JsSub(sumDebitOrZero(lines), sumCreditOrZero(lines))))

\* (line.debitAmount || 0) > 0 && (line.creditAmount || 0) > 0
bothSides(line) ==
  JsPositive(OrZero(line.debitAmount)) /\ JsPositive(OrZero(line.creditAmount))

\* the error router.post('/journal-entries') answers with, "" when the
\* request passes every check
postJournalEntriesError(body) ==
  IF ~Truthy(body.date) \/ ~Truthy(body.description) \/ ~body.linesIsArray
    THEN "Missing required fields"
  ELSE IF tooFewLines(body.lines)
    THEN "Journal entry must have at least 2 lines"
  ELSE IF unknownAccount(body.lines)
    THEN "Account not found: "
  ELSE IF unbalanced(body.lines)
    THEN "Debits and credits must be equal"
  ELSE IF \E i \in DOMAIN body.lines : bothSides(body.lines[i])
    THEN "Each line must have either debit or credit, not both"
  ELSE ""

\* router.post('/journal-entries')
PostJournalEntries ==
  \E body \in PostJournalEntriesInputs :
    /\ Idle
    /\ request' = Req("POST /journal-entries", 0, body)
    /\ IF postJournalEntriesError(body) # ""
       THEN /\ response' = Rest(400, postJournalEntriesError(body))
            /\ UNCHANGED <<accounts, journalEntries, uuidCount>>
       ELSE /\ uuidCount < MaxUuids
            /\ journalEntries' = db_createJournalEntry(body.date, body.description, body.lines)
            /\ uuidCount' = uuidCount + 1
            /\ response' = Rest(201, "")
            /\ UNCHANGED accounts
    /\ UNCHANGED <<inflight, buffer, pendingLines, stdout>>

EntryIdInputs == CreatedIds \cup UnknownIds

EntryPatch(d, s, hasLines, ls) ==
  [date |-> d, description |-> s, hasLines |-> hasLines, lines |-> ls]

\* the bodies of PUT /journal-entries/:id: a new description and no date,
\* alone, with a single line, and with two lines that pass the checks of
\* create
PutJournalEntryInputs ==
  { EntryPatch(Undef, "edited", FALSE, << >>),
    EntryPatch(Undef, "edited", TRUE, << RL(2, Num(Yen(5000)), Num(0)) >>),
    EntryPatch(Undef, "edited", TRUE,
               << RL(2, Num(Yen(5000)), Num(0)), RL(12, Num(0), Num(Yen(5000))) >>) }

\* router.put('/journal-entries/:id')
PutJournalEntry ==
  \E id \in EntryIdInputs, body \in PutJournalEntryInputs :
    /\ Idle
    /\ request' = Req("PUT /journal-entries/:id", id, body)
    /\ IF findIndex(journalEntries, id) = 0
       THEN /\ response' = Rest(404, "Journal entry not found")
            /\ UNCHANGED <<accounts, journalEntries, uuidCount>>
       ELSE /\ journalEntries' = db_updateJournalEntry(id, body.date, body.description)
            /\ response' = Rest(200, "")
            /\ UNCHANGED <<accounts, uuidCount>>
    /\ UNCHANGED <<inflight, buffer, pendingLines, stdout>>

\* router.delete('/journal-entries/:id')
DeleteJournalEntry ==
  \E id \in EntryIdInputs :
    /\ Idle
    /\ request' = Req("DELETE /journal-entries/:id", id, <<>>)
    /\ IF findIndex(journalEntries, id) = 0
       THEN /\ response' = Rest(404, "Journal entry not found")
            /\ UNCHANGED <<accounts, journalEntries, uuidCount>>
       ELSE /\ journalEntries' = db_deleteJournalEntry(id)
            /\ response' = Rest(204, "")
            /\ UNCHANGED <<accounts, uuidCount>>
    /\ UNCHANGED <<inflight, buffer, pendingLines, stdout>>

\* a reset that empties the journal and leaves the accounts
resetDatabase_journalOnly ==
  /\ accounts' = accounts
  /\ journalEntries' = <<>>

\* resetDatabase()
resetDatabase ==
  /\ accounts' = STANDARD_ACCOUNTS
  /\ journalEntries' = <<>>

\* router.post('/test/reset')
PostTestReset ==
  /\ Idle
  /\ request' = Req("POST /test/reset", 0, <<>>)
  /\ resetDatabase
  /\ response' = Rest(200, "")
  /\ UNCHANGED uuidCount
  /\ UNCHANGED <<inflight, buffer, pendingLines, stdout>>

(***************************************************************************)
(* Tool-call surface: tools/call create_journal_entry and test/reset       *)
(***************************************************************************)
TL(c, d, k) == [accountCode |-> c, debitAmount |-> d, creditAmount |-> k]

ToolArgs(present, d, s, ls) ==
  [argsPresent |-> present, date |-> d, description |-> s, linesIsArray |-> TRUE,
   lines |-> ls]

\* the arguments of create_journal_entry a tool client submits
CreateJournalEntryInputs ==
  { ToolArgs(TRUE, "2024-01-15", "memo",
             << TL("100", Num(Yen(10000)), Num(0)), TL("400", Num(0), Num(Yen(10000))) >>),
    \* amounts left out: stored as 0
    ToolArgs(TRUE, "2024-01-15", "memo",
             << TL("500", Num(Yen(10000)), Undefined),
                TL("100", Undefined, Num(Yen(10000))) >>),
    ToolArgs(TRUE, "2024-01-15", "memo",
             << TL("100", Num(0), Num(0)), TL("400", Num(0), Num(0)) >>),
    ToolArgs(TRUE, "2024-01-15", "memo",
             << TL("100", Num(Yen(10000)), Num(0)), TL("400", Num(0), Num(Yen(9000))) >>),
    ToolArgs(TRUE, "2024-01-15", "memo",
             << TL("100", Num(Yen(10000)), Num(Yen(10000))), TL("400", Num(0), Num(0)) >>),
    ToolArgs(TRUE, "2024-01-15", "memo",
             << TL("100", Num(Yen(10000)), Num(0)), TL("zzz", Num(0), Num(Yen(10000))) >>),
    ToolArgs(TRUE, "2024-01-15", "memo", << TL("100", Num(Yen(10000)), Num(0)) >>),
    ToolArgs(TRUE, "01/15/2024", "memo",
             << TL("100", Num(Yen(10000)), Num(0)), TL("400", Num(0), Num(Yen(10000))) >>),
    ToolArgs(TRUE, Undef, "memo",
             << TL("100", Num(Yen(10000)), Num(0)), TL("400", Num(0), Num(Yen(9000))) >>),
    \* debit and credit on the same line, totals unequal
    ToolArgs(TRUE, "2024-01-15", "memo",
             << TL("100", Num(Yen(10000)), Num(Yen(10000))),
                TL("400", Num(0), Num(Yen(9000))) >>),
    \* tools/call without arguments
    ToolArgs(FALSE, Undef, Undef, << >>) }

\* entryLines.push({ accountId, debitAmount: line.debitAmount || 0, ... })
entryLines(lines) ==
  [i \in DOMAIN lines |->
     RL(getAccountByCode(lines[i].accountCode).id,
        OrZero(lines[i].debitAmount), OrZero(lines[i].creditAmount))]

\* entryLines.reduce((sum, line) => sum + line.debitAmount, 0)
RECURSIVE sumDebit(_)
sumDebit(lines) ==
  IF lines = <<>> THEN Num(0)
  ELSE JsAdd(sumDebit(SubSeq(lines, 1, Len(lines) - 1)), lines[Len(lines)].debitAmount)

\* entryLines.reduce((sum, line) => sum + line.creditAmount, 0)
RECURSIVE sumCredit(_)
sumCredit(lines) ==
  IF lines = <<>> THEN Num(0)
  ELSE JsAdd(sumCredit(SubSeq(lines, 1, Len(lines) - 1)), lines[Len(lines)].creditAmount)

\* the error the tool createJournalEntry returns in its result, "" when the
\* arguments pass every check
createJournalEntryError(args) ==
  IF ~Truthy(args.date) \/ ~Truthy(args.description) \/ ~args.linesIsArray
    THEN "Missing required fields: date, description, lines"
  ELSE IF Len(args.lines) < 2
    THEN "Journal entry must have at least 2 lines"
  ELSE IF ~dateRegexTest(args.date)
    THEN "Invalid date format. Use YYYY-MM-DD"
  ELSE IF \E i \in DOMAIN args.lines : ~hasAccountByCode(args.lines[i].accountCode)
    THEN "Account not found: "
  ELSE IF ExceedsTolerance(JsAbs(JsSub(sumDebit(entryLines(args.lines)),
                                       sumCredit(entryLines(args.lines)))))
    THEN "Debits and credits must be equal"
  ELSE IF \E i \in DOMAIN args.lines :
            JsPositive(entryLines(args.lines)[i].debitAmount)
            /\ JsPositive(entryLines(args.lines)[i].creditAmount)
    THEN "Each line must have either debit or credit, not both"
  ELSE ""

\* handleRequest, case 'tools/call', name 'create_journal_entry': destructuring
\* absent arguments throws, and handleRequest answers -32603
ToolCreateJournalEntry ==
  \E args \in CreateJournalEntryInputs :
    /\ Idle
    /\ request' = Req("tools/call create_journal_entry", 0, args)
    /\ IF ~args.argsPresent
       THEN /\ response' = McpError(0 - 32603, "Internal error")
            /\ UNCHANGED <<accounts, journalEntries, uuidCount>>
       ELSE IF createJournalEntryError(args) # ""
       THEN /\ response' = McpResult(createJournalEntryError(args))
            /\ UNCHANGED <<accounts, journalEntries, uuidCount>>
       ELSE /\ uuidCount < MaxUuids
            /\ journalEntries' =
                 db_createJournalEntry(args.date, args.description, entryLines(args.lines))
            /\ uuidCount' = uuidCount + 1
            /\ response' = McpResult("")
            /\ UNCHANGED accounts
    /\ UNCHANGED <<inflight, buffer, pendingLines, stdout>>

\* handleRequest, case 'test/reset'
ToolTestReset ==
  /\ Idle
  /\ request' = Req("test/reset", 0, <<>>)
  /\ resetDatabase
  /\ response' = McpResult("")
  /\ UNCHANGED uuidCount
  /\ UNCHANGED <<inflight, buffer, pendingLines, stdout>>

(***************************************************************************)
(* Ledger projections                                                      *)
(***************************************************************************)
\* entries.filter((entry) => entry.date <= asOfDate) when asOfDate is given
entriesAsOf(asOfDate) ==
  IF Truthy(asOfDate)
  THEN SelectSeq(journalEntries, LAMBDA entry : StrLE(entry.date, asOfDate))
  ELSE journalEntries

\* the lines in the order of: for (entry of entries) for (line of entry.lines)
RECURSIVE linesOf(_)
linesOf(entries) ==
  IF entries = <<>> THEN <<>> ELSE Head(entries).lines \o linesOf(Tail(entries))

\* Map.get: undefined for a key the map does not hold
mapGet(m, key) == IF key \in DOMAIN m THEN m[key] ELSE Undefined

\* Map.set
mapSet(m, key, value) == [x \in DOMAIN m \cup {key} |-> IF x = key THEN value ELSE m[x]]

\* new Map() with set(account.id, 0) for every account
zeroMap == [id \in {accounts[i].id : i \in DOMAIN accounts} |-> Num(0)]

\* debitAmounts.set(id, (debitAmounts.get(id) || 0) + line.debitAmount)
RECURSIVE debitAmounts(_, _)
debitAmounts(lines, m) ==
  IF lines = <<>> THEN m
  ELSE debitAmounts(Tail(lines),
         mapSet(m, Head(lines).accountId,
                JsAdd(OrZero(mapGet(m, Head(lines).accountId)), Head(lines).debitAmount)))

\* creditAmounts.set(id, (creditAmounts.get(id) || 0) + line.creditAmount)
RECURSIVE creditAmounts(_, _)
creditAmounts(lines, m) ==
  IF lines = <<>> THEN m
  ELSE creditAmounts(Tail(lines),
         mapSet(m, Head(lines).accountId,
                JsAdd(OrZero(mapGet(m, Head(lines).accountId)), Head(lines).creditAmount)))

\* for (account of this.accounts) total += map.get(account.id) || 0
RECURSIVE totalOver(_, _)
totalOver(accs, m) ==
  IF accs = <<>> THEN Num(0)
  ELSE JsAdd(totalOver(SubSeq(accs, 1, Len(accs) - 1), m),
             OrZero(mapGet(m, accs[Len(accs)].id)))

getTrialBalance(asOfDate) ==
  [totalDebit |-> totalOver(accounts, debitAmounts(linesOf(entriesAsOf(asOfDate)), zeroMap)),
   totalCredit |-> totalOver(accounts, creditAmounts(linesOf(entriesAsOf(asOfDate)), zeroMap))]

\* balances.set(id, (balances.get(id) || 0) + line.debitAmount - line.creditAmount)
RECURSIVE balances(_, _)
balances(lines, m) ==
  IF lines = <<>> THEN m
  ELSE balances(Tail(lines),
         mapSet(m, Head(lines).accountId,
                JsSub(JsAdd(OrZero(mapGet(m, Head(lines).accountId)),
                            Head(lines).debitAmount),
                      Head(lines).creditAmount)))

\* what one account adds to equity: equity and revenue subtract their
\* balance, expense adds it
equityTerm(type, balance) ==
  IF type = "equity" \/ type = "revenue" THEN JsNeg(balance)
  ELSE IF type = "expense" THEN balance
  ELSE Num(0)

\* the loop over this.accounts of getBalanceSheet: assets += balance,
\* liabilities -= balance, equity -= or += balance, by account.type
RECURSIVE sheetTotals(_, _)
sheetTotals(accs, m) ==
  IF accs = <<>> THEN [assets |-> Num(0), liabilities |-> Num(0), equity |-> Num(0)]
  ELSE LET rest == sheetTotals(SubSeq(accs, 1, Len(accs) - 1), m)
           account == accs[Len(accs)]
           balance == OrZero(mapGet(m, account.id))
       IN [assets |-> IF account.type = "asset"
                      THEN JsAdd(rest.assets, balance) ELSE rest.assets,
           liabilities |-> IF account.type = "liability"
                           THEN JsSub(rest.liabilities, balance) ELSE rest.liabilities,
           equity |-> JsAdd(rest.equity, equityTerm(account.type, balance))]

getBalanceSheet(asOfDate) ==
  sheetTotals(accounts, balances(linesOf(entriesAsOf(asOfDate)), zeroMap))

\* the dates a query names; Undef for a parameter left out
QueryDateInputs == {Undef, "2024-01-15", "2024-02-15"}

\* entries.filter((entry) => entry.date >= startDate), then
\* entries.filter((entry) => entry.date <= endDate), each when the bound is given
db_getJournalEntries(startDate, endDate) ==
  SelectSeq(journalEntries,
            LAMBDA entry : /\ Truthy(startDate) => StrLE(startDate, entry.date)
                           /\ Truthy(endDate) => StrLE(entry.date, endDate))

\* router.get('/journal-entries'): reads startDate and endDate from the
\* query; an accountId in the query is not read
getJournalEntriesRoute(accountId, startDate, endDate) ==
  db_getJournalEntries(startDate, endDate)

\* the loop of getAccountBalance over the lines, for an account of the
\* given type: balance += debit - credit for asset and expense,
\* balance += credit - debit otherwise
RECURSIVE balanceOver(_, _, _)
balanceOver(lines, accountId, type) ==
  IF lines = <<>> THEN Num(0)
  ELSE LET rest == balanceOver(SubSeq(lines, 1, Len(lines) - 1), accountId, type)
           line == lines[Len(lines)]
       IN IF line.accountId # accountId THEN rest
          ELSE IF type = "asset" \/ type = "expense"
          THEN JsAdd(rest, JsSub(line.debitAmount, line.creditAmount))
          ELSE JsAdd(rest, JsSub(line.creditAmount, line.debitAmount))

\* getAccountBalance taking every account as debit-normal
getAccountBalance_debitNormal(accountId, asOfDate) ==
  IF ~hasAccountById(accountId) THEN Num(0)
  ELSE balanceOver(linesOf(entriesAsOf(asOfDate)), accountId, "asset")

getAccountBalance(accountId, asOfDate) ==
  IF ~hasAccountById(accountId) THEN Num(0)
  ELSE balanceOver(linesOf(entriesAsOf(asOfDate)), accountId, getAccountById(accountId).type)

\* this.journalEntries.filter((entry) => entry.date >= startDate && entry.date <= endDate)
entriesBetween(startDate, endDate) ==
  SelectSeq(journalEntries,
            LAMBDA entry : StrLE(startDate, entry.date) /\ StrLE(entry.date, endDate))

\* the loop of getIncomeStatement: amount = debit - credit; revenue += -amount
\* on a revenue account, expenses += amount on an expense account; a line
\* whose account is gone is skipped
RECURSIVE incomeTotals(_)
incomeTotals(lines) ==
  IF lines = <<>> THEN [revenue |-> Num(0), expenses |-> Num(0)]
  ELSE LET rest == incomeTotals(SubSeq(lines, 1, Len(lines) - 1))
           line == lines[Len(lines)]
           amount == JsSub(line.debitAmount, line.creditAmount)
           type == IF hasAccountById(line.accountId)
                   THEN getAccountById(line.accountId).type ELSE Undef
       IN [revenue |-> IF type = "revenue"
                       THEN JsAdd(rest.revenue, JsNeg(amount)) ELSE rest.revenue,
           expenses |-> IF type = "expense"
                        THEN JsAdd(rest.expenses, amount) ELSE rest.expenses]

getIncomeStatement(startDate, endDate) ==
  LET totals == incomeTotals(linesOf(entriesBetween(startDate, endDate)))
  IN [revenue |-> totals.revenue,
      expenses |-> totals.expenses,
      netIncome |-> JsSub(totals.revenue, totals.expenses)]

\* the rows getTAccountEntries pushes, in the order of: for (entry of
\* entries) for (line of entry.lines) if (line.accountId === accountId)
RECURSIVE rowsOf(_, _)
rowsOf(entries, accountId) ==
  IF entries = <<>> THEN <<>>
  ELSE LET entry == Head(entries)
           mine == SelectSeq(entry.lines, LAMBDA line : line.accountId = accountId)
       IN [j \in DOMAIN mine |->
             [date |-> entry.date, description |-> entry.description,
              journalEntryId |-> entry.id,
              debit |-> mine[j].debitAmount, credit |-> mine[j].creditAmount]]
          \o rowsOf(Tail(entries), accountId)

\* the place a.date.localeCompare(b.date) gives a row whose date is b: an
\* undefined argument is compared as the string "undefined", after every
\* date that begins with a digit
sortRank(date) == IF date = Undef THEN Len(DateOrder) + 1 ELSE DateRank(date)

\* Array.prototype.sort is stable: a row goes behind the rows that do not
\* compare after it
RECURSIVE sortByDate(_)
sortByDate(rows) ==
  IF rows = <<>> THEN <<>>
  ELSE LET front == sortByDate(SubSeq(rows, 1, Len(rows) - 1))
           row == rows[Len(rows)]
           before == SelectSeq(front, LAMBDA r : sortRank(r.date) <= sortRank(row.date))
           after == SelectSeq(front, LAMBDA r : sortRank(r.date) > sortRank(row.date))
       IN before \o <<row>> \o after

\* a.date.localeCompare(b.date) throws a TypeError when a.date is undefined;
\* the sort of Node calls the comparator with every row but the first as a
sortThrows(rows) == \E i \in 2..Len(rows) : rows[i].date = Undef

\* getTAccountEntries as the route sees it: 404 for null, 500 when the
\* comparator throws, else the sorted rows
getTAccountEntries(accountId, asOfDate) ==
  IF ~hasAccountById(accountId) THEN [status |-> 404, entries |-> <<>>]
  ELSE IF sortThrows(rowsOf(entriesAsOf(asOfDate), accountId))
  THEN [status |-> 500, entries |-> <<>>]
  ELSE [status |-> 200, entries |-> sortByDate(rowsOf(entriesAsOf(asOfDate), accountId))]

\* for (entry of tAccountData.entries) { totalDebit += entry.debit; totalCredit += entry.credit }
RECURSIVE rowTotals(_)
rowTotals(rows) ==
  IF rows = <<>> THEN [totalDebit |-> Num(0), totalCredit |-> Num(0)]
  ELSE LET rest == rowTotals(SubSeq(rows, 1, Len(rows) - 1))
       IN [totalDebit |-> JsAdd(rest.totalDebit, rows[Len(rows)].debit),
           totalCredit |-> JsAdd(rest.totalCredit, rows[Len(rows)].credit)]

\* router.get('/balances/:accountId/t-account'): 404 for no account, 500
\* when getTAccountEntries throws, else the rows, their totals and the
\* balance, totalDebit - totalCredit for asset and expense, totalCredit -
\* totalDebit otherwise
getTAccountRoute(accountId, asOfDate) ==
  LET data == getTAccountEntries(accountId, asOfDate)
      totals == rowTotals(data.entries)
  IN IF data.status # 200
     THEN [status |-> data.status, entries |-> <<>>, totalDebit |-> Undefined,
           totalCredit |-> Undefined, balance |-> Undefined]
     ELSE [status |-> 200, entries |-> data.entries,
           totalDebit |-> totals.totalDebit, totalCredit |-> totals.totalCredit,
           balance |-> IF getAccountById(accountId).type \in {"asset", "expense"}
                       THEN JsSub(totals.totalDebit, totals.totalCredit)
                       ELSE JsSub(totals.totalCredit, totals.totalDebit)]

\* the dates new Date().toISOString().split('T')[0] may give
ClockInputs == {"2024-01-15", "2024-02-15", "2024-03-31"}

\* router.get('/balances/:accountId') when the clock shows today: the
\* balance is computed with the asOfDate of the query, the asOfDate
\* reported is that of the query or else today
getBalanceRoute(accountId, asOfDate, today) ==
  IF ~hasAccountById(accountId)
  THEN [status |-> 404, balance |-> Undefined, asOfDate |-> Undef]
  ELSE [status |-> 200,
        balance |-> getAccountBalance(accountId, asOfDate),
        asOfDate |-> IF Truthy(asOfDate) THEN asOfDate ELSE today]

Next ==
  \/ PostAccounts
  \/ PutAccount
  \/ DeleteAccount
  \/ PostJournalEntries
  \/ PutJournalEntry
  \/ DeleteJournalEntry
  \/ PostTestReset
  \/ ToolCreateJournalEntry
  \/ ToolTestReset
  \/ ClientReadsResponse

Spec == Init /\ [][Next]_vars

(***************************************************************************)
(* The exported db used directly.  The entry argument of                   *)
(* Database.createJournalEntry may carry isClosed, which no route and no   *)
(* tool passes on; SpecDb lets a caller of db create such entries and then *)
(* runs the update and delete routes on them.                              *)
(***************************************************************************)
\* { ...entry, id, lines } for an entry argument { date, description, isClosed }
db_createJournalEntry_withFlag(date, description, isClosed, lines) ==
  Append(journalEntries,
         [id |-> uuidv4, date |-> date, description |-> description,
          isClosed |-> isClosed,
          lines |-> [i \in DOMAIN lines |-> storedLine(lines[i])]])

\* the arguments of a direct db.createJournalEntry call
DbCreateInputs ==
  { [date |-> d, description |-> "memo", isClosed |-> c, lines |-> ls] :
      d \in {"2024-01-15", "2024-02-15"},
      c \in BOOLEAN,
      ls \in { << RL(1, Num(Yen(10000)), Num(0)), RL(12, Num(0), Num(Yen(10000))) >>,
               << RL(14, Num(Yen(10000)), Num(0)), RL(1, Num(0), Num(Yen(10000))) >> } }

\* db.createJournalEntry({ date, description, isClosed }, lines)
DbCreateJournalEntry ==
  \E args \in DbCreateInputs :
    /\ Idle
    /\ uuidCount < MaxUuids
    /\ request' = Req("db.createJournalEntry", 0, args)
    /\ journalEntries' =
         db_createJournalEntry_withFlag(args.date, args.description, args.isClosed, args.lines)
    /\ uuidCount' = uuidCount + 1
    /\ response' = [surface |-> "db", status |-> 0, error |-> "", code |-> 0]
    /\ UNCHANGED accounts
    /\ UNCHANGED <<inflight, buffer, pendingLines, stdout>>

NextDb ==
  \/ DbCreateJournalEntry
  \/ PutJournalEntry
  \/ DeleteJournalEntry
  \/ ClientReadsResponse

SpecDb == Init /\ [][NextDb]_vars

(***************************************************************************)
(* Vocabulary of the claims                                                *)
(***************************************************************************)
\* the error kind a message stands for ("" for no error); the message of
\* DELETE /accounts/:id names two kinds and is left out
ErrorKind(message) ==
  CASE message \in {"Missing required fields",
                    "Missing required fields: date, description, lines",
                    "Journal entry must have at least 2 lines",
                    "Invalid date format. Use YYYY-MM-DD",
                    "Each line must have either debit or credit, not both"}
         -> "ValidationError"
    [] message = "Account not found: " -> "AccountNotFound"
    [] message = "Debits and credits must be equal" -> "UnbalancedEntry"
    [] message = "Account code already exists" -> "DuplicateCode"
    [] message \in {"Account not found", "Journal entry not found"} -> "NotFound"
    [] OTHER -> ""

\* the response reports a failure
Failed(r) == r.status >= 400 \/ r.error # "" \/ r.code # 0

\* an amount as a quantity: an amount that is absent counts as 0
Amount(x) == IF IsNum(x) THEN x.v ELSE 0

RECURSIVE DebitTotal(_)
DebitTotal(lines) ==
  IF lines = <<>> THEN 0 ELSE Amount(Head(lines).debitAmount) + DebitTotal(Tail(lines))

RECURSIVE CreditTotal(_)
CreditTotal(lines) ==
  IF lines = <<>> THEN 0 ELSE Amount(Head(lines).creditAmount) + CreditTotal(Tail(lines))

Distance(a, b) == IF a < b THEN b - a ELSE a - b

\* some line of some stored entry is on the account
Referenced(id) ==
  \E i \in DOMAIN journalEntries :
    \E j \in DOMAIN journalEntries[i].lines : journalEntries[i].lines[j].accountId = id

Live(id) == \E i \in DOMAIN accounts : accounts[i].id = id

LiveCode(code) == \E i \in DOMAIN accounts : accounts[i].code = code

IsCreateEntry(req) ==
  req.op \in {"POST /journal-entries", "tools/call create_journal_entry"}

\* every line of the request names a live account (by id on the REST
\* surface, by code on the tool-call surface)
LinesResolve(req) ==
  \A i \in DOMAIN req.body.lines :
    IF req.op = "POST /journal-entries"
    THEN Live(req.body.lines[i].accountId)
    ELSE LiveCode(req.body.lines[i].accountCode)

\* a create request with at least two lines on existing accounts whose
\* debit and credit sums differ by more than 0.01
UnbalancedRequest(req) ==
  /\ IsCreateEntry(req)
  /\ req.body.linesIsArray
  /\ Len(req.body.lines) >= 2
  /\ LinesResolve(req)
  /\ Distance(DebitTotal(req.body.lines), CreditTotal(req.body.lines)) > Tolerance

\* the request carries a date and a description (on the tool-call surface,
\* a date of the form YYYY-MM-DD)
DatedRequest(req) ==
  /\ Truthy(req.body.date)
  /\ Truthy(req.body.description)
  /\ req.op = "tools/call create_journal_entry" => dateRegexTest(req.body.date)

(***************************************************************************)
(* C1: after any sequence of operations, trialBalance() returns totalDebit *)
(* exactly equal to totalCredit.                                           *)
(***************************************************************************)
C1_TrialBalanceEqual ==
  getTrialBalance(Undef).totalDebit = getTrialBalance(Undef).totalCredit

(***************************************************************************)
(* C2: balanceSheet().assets.total equals liabilities.total + equity.total *)
(* within 0.01, for any set of accepted entries.                           *)
(***************************************************************************)
C2_BalanceSheetIdentity ==
  LET sheet == getBalanceSheet(Undef) IN
  Distance(sheet.assets.v, sheet.liabilities.v + sheet.equity.v) <= Tolerance

(***************************************************************************)
(* C3: creating an entry with at least two lines on existing accounts and  *)
(* unequal debit and credit sums always fails with UnbalancedEntry and     *)
(* leaves the stored entries unchanged.  As stated it fails for a request  *)
(* without a date; it holds for requests that carry a date and a           *)
(* description.                                                            *)
(***************************************************************************)
C3_UnbalancedAlwaysUnbalancedEntry ==
  [][UnbalancedRequest(request')
       => /\ ErrorKind(response'.error) = "UnbalancedEntry"
          /\ journalEntries' = journalEntries]_vars

C3_UnbalancedRejected ==
  [][(UnbalancedRequest(request') /\ DatedRequest(request'))
       => /\ ErrorKind(response'.error) = "UnbalancedEntry"
          /\ journalEntries' = journalEntries]_vars

C3_Witness ==
  /\ UnbalancedRequest(request)
  /\ DatedRequest(request)
  /\ ErrorKind(response.error) = "UnbalancedEntry"
  /\ journalEntries # <<>>

(***************************************************************************)
(* C4: creating an entry with exactly one line always fails with           *)
(* ValidationError, whatever the line's amounts, and stores nothing.       *)
(***************************************************************************)
OneLineRequest(req) ==
  IsCreateEntry(req) /\ req.body.linesIsArray /\ Len(req.body.lines) = 1

C4_SingleLineRejected ==
  [][OneLineRequest(request')
       => /\ ErrorKind(response'.error) = "ValidationError"
          /\ journalEntries' = journalEntries]_vars

\* a single line whose debit and credit sums are equal is rejected
C4_Witness ==
  /\ OneLineRequest(request)
  /\ Truthy(request.body.date)
  /\ DebitTotal(request.body.lines) = CreditTotal(request.body.lines)
  /\ response.error = "Journal entry must have at least 2 lines"

(***************************************************************************)
(* C5: deleting an account that a stored line references fails (400, the   *)
(* status of Conflict) and leaves the accounts unchanged; deleting a live  *)
(* account that no line references succeeds and removes exactly it.        *)
(***************************************************************************)
C5_DeletionGuard ==
  [][request'.op = "DELETE /accounts/:id"
       => /\ Referenced(request'.id)
               => /\ response'.status = 400
                  /\ response'.error = "Cannot delete account: not found or in use"
                  /\ accounts' = accounts
          /\ (~Referenced(request'.id) /\ Live(request'.id))
               => /\ response'.status = 204
                  /\ accounts' = SelectSeq(accounts, LAMBDA a : a.id # request'.id)
                  /\ Len(accounts') = Len(accounts) - 1]_vars

C5_Witness ==
  /\ request.op = "DELETE /accounts/:id"
  /\ Referenced(request.id)
  /\ Live(request.id)
  /\ response.status = 400

(***************************************************************************)
(* C6: in every reachable state the debit sum and the credit sum of every  *)
(* stored entry differ by at most 0.01.                                    *)
(***************************************************************************)
C6_BalancedEntryLaw ==
  \A i \in DOMAIN journalEntries :
    Distance(DebitTotal(journalEntries[i].lines), CreditTotal(journalEntries[i].lines))
      <= Tolerance

\* an entry whose sums differ, within the tolerance, is stored
C6_Witness ==
  \E i \in DOMAIN journalEntries :
    DebitTotal(journalEntries[i].lines) # CreditTotal(journalEntries[i].lines)

(***************************************************************************)
(* C7: every line of every stored entry has exactly one of debitAmount and *)
(* creditAmount strictly positive and the other exactly zero.              *)
(***************************************************************************)
OneSided(line) ==
  /\ IsNum(line.debitAmount)
  /\ IsNum(line.creditAmount)
  /\ \/ line.debitAmount.v > 0 /\ line.creditAmount.v = 0
     \/ line.debitAmount.v = 0 /\ line.creditAmount.v > 0

C7_OneSidedLines ==
  \A i \in DOMAIN journalEntries :
    \A j \in DOMAIN journalEntries[i].lines : OneSided(journalEntries[i].lines[j])

(***************************************************************************)
(* C8: in every reachable state no two live accounts share a code:         *)
(* creating an account whose code is that of a live account fails and adds *)
(* no account, with DuplicateCode when the request carries its name, type  *)
(* and category (a request that lacks one is refused as incomplete first). *)
(***************************************************************************)
UniqueCodes ==
  \A i, j \in DOMAIN accounts : accounts[i].code = accounts[j].code => i = j

DuplicateRequest(req) == req.op = "POST /accounts" /\ LiveCode(req.body.code)

CompleteAccountRequest(req) ==
  Truthy(req.body.name) /\ Truthy(req.body.type) /\ Truthy(req.body.category)

C9_NoPartialWrite ==
  [][Failed(response') => (accounts' = accounts /\ journalEntries' = journalEntries)]_vars

\* a deletion refused on a store that holds entries
C9_Witness ==
  /\ Failed(response)
  /\ request.op = "DELETE /accounts/:id"
  /\ journalEntries # <<>>

(***************************************************************************)
(* C11: an account update never changes the id, the code or the type of    *)
(* the account, whatever fields the patch contains, and leaves every other *)
(* account as it was: only name and category may differ afterwards.        *)
(***************************************************************************)
C11_UpdateKeepsIdentity ==
  [][request'.op = "PUT /accounts/:id"
       => /\ Len(accounts') = Len(accounts)
          /\ \A i \in DOMAIN accounts :
               /\ accounts'[i].id = accounts[i].id
               /\ accounts'[i].code = accounts[i].code
               /\ accounts'[i].type = accounts[i].type
               /\ accounts[i].id # request'.id => accounts'[i] = accounts[i]]_vars

\* an update whose patch names a code and a type has been applied
C11_Witness ==
  /\ request.op = "PUT /accounts/:id"
  /\ Truthy(request.body.code)
  /\ Truthy(request.body.type)
  /\ response.status = 200
  /\ getAccountById(request.id).name = request.body.name

(***************************************************************************)
(* C10: in every reachable state the accountId of every line of every      *)
(* stored entry is the id of a live account: a create request with a line  *)
(* on an unresolved account is rejected and stores nothing, with           *)
(* AccountNotFound when it carries a date, a description and two lines.    *)
(***************************************************************************)
LinesReferenceLiveAccounts ==
  \A i \in DOMAIN journalEntries :
    \A j \in DOMAIN journalEntries[i].lines : Live(journalEntries[i].lines[j].accountId)

UnresolvedRequest(req) ==
  IsCreateEntry(req) /\ req.body.linesIsArray /\ ~LinesResolve(req)

AccountTypes == {"asset", "liability", "equity", "revenue", "expense"}

InvalidAccountRequest(req) ==
  /\ req.op = "POST /accounts"
  /\ \/ ~Truthy(req.body.code)
     \/ ~Truthy(req.body.name)
     \/ ~Truthy(req.body.type)
     \/ ~Truthy(req.body.category)
     \/ req.body.type \notin AccountTypes

LiveTypesValid == \A i \in DOMAIN accounts : accounts[i].type \in AccountTypes

C12_AccountValidation ==
  /\ []LiveTypesValid
  /\ [][InvalidAccountRequest(request')
          => /\ ErrorKind(response'.error) = "ValidationError"
             /\ accounts' = accounts]_vars

(***************************************************************************)
(* C13: when a journal-entry create request violates several rules at      *)
(* once, the error reported is that of the first violated check in the     *)
(* order (1) date and description present and date valid, (2) at least two *)
(* lines, (3) every account resolves, (4) every line has exactly one of    *)
(* debit and credit positive, (5) debits equal credits within 0.01; so a   *)
(* request with a line carrying both a positive debit and a positive       *)
(* credit and with unequal totals is a ValidationError, not an             *)
(* UnbalancedEntry.                                                        *)
(***************************************************************************)
ExactlyOnePositive(line) ==
  \/ Amount(line.debitAmount) > 0 /\ Amount(line.creditAmount) = 0
  \/ Amount(line.debitAmount) = 0 /\ Amount(line.creditAmount) > 0

RuleViolated(k, req) ==
  CASE k = 1 -> \/ ~Truthy(req.body.date)
                \/ ~Truthy(req.body.description)
                \/ ~req.body.linesIsArray
                \/ ~dateRegexTest(req.body.date)
    [] k = 2 -> Len(req.body.lines) < 2
    [] k = 3 -> ~LinesResolve(req)
    [] k = 4 -> \E i \in DOMAIN req.body.lines : ~ExactlyOnePositive(req.body.lines[i])
    [] k = 5 -> Distance(DebitTotal(req.body.lines), CreditTotal(req.body.lines)) > Tolerance

ViolatedRules(req) == {k \in 1..5 : RuleViolated(k, req)}

RuleKind(k) ==
  CASE k \in {1, 2, 4} -> "ValidationError"
    [] k = 3 -> "AccountNotFound"
    [] k = 5 -> "UnbalancedEntry"

FirstViolated(req) == CHOOSE k \in ViolatedRules(req) : \A j \in ViolatedRules(req) : k <= j

C13_FirstViolatedCheckReported ==
  [][(IsCreateEntry(request') /\ Cardinality(ViolatedRules(request')) >= 2)
       => ErrorKind(response'.error) = RuleKind(FirstViolated(request'))]_vars

(***************************************************************************)
(* C14: a journal entry whose isClosed flag is true is immutable: update   *)
(* and delete on it fail with Conflict, and the entry stays stored with    *)
(* unchanged date, description and lines.  Checked under SpecDb.           *)
(***************************************************************************)
IsClosedEntry(id) ==
  \E i \in DOMAIN journalEntries :
    journalEntries[i].id = id /\ journalEntries[i].isClosed

C14_ClosedEntriesImmutable ==
  [][(/\ request'.op \in {"PUT /journal-entries/:id", "DELETE /journal-entries/:id"}
      /\ IsClosedEntry(request'.id))
       => /\ Failed(response')
          /\ response'.status # 404
          /\ journalEntries' = journalEntries]_vars

(***************************************************************************)
(* C15: a journal-entry update whose patch contains lines re-runs the      *)
(* create validation on them: a patch with fewer than two lines, an        *)
(* unresolved account, an ambiguous line or unequal totals is rejected     *)
(* with the error create would give, leaving the entry unchanged, and a    *)
(* valid patch replaces the entry's lines.                                 *)
(***************************************************************************)
\* the rules of create about lines that the lines of the patch violate
PatchViolations(req) ==
  {k \in 2..5 : RuleViolated(k, [req EXCEPT !.op = "POST /journal-entries"])}

SubmittedLine(line) ==
  [accountId |-> line.accountId, debitAmount |-> line.debitAmount,
   creditAmount |-> line.creditAmount]

C15_UpdateValidatesLines ==
  [][(/\ request'.op = "PUT /journal-entries/:id"
      /\ request'.body.hasLines
      /\ findIndex(journalEntries, request'.id) # 0)
       => IF PatchViolations(request') # {}
          THEN /\ ErrorKind(response'.error)
                    = RuleKind(CHOOSE k \in PatchViolations(request') :
                                 \A j \in PatchViolations(request') : k <= j)
               /\ journalEntries' = journalEntries
          ELSE LET lines == journalEntries'[findIndex(journalEntries, request'.id)].lines
               IN /\ ~Failed(response')
                  /\ Len(lines) = Len(request'.body.lines)
                  /\ \A i \in DOMAIN lines :
                       SubmittedLine(lines[i]) = request'.body.lines[i]]_vars

(***************************************************************************)
(* C16: listing journal entries with an accountId filter returns exactly   *)
(* the stored entries that contain at least one line on that account       *)
(* (within the inclusive startDate/endDate range when given), and no entry *)
(* without such a line.                                                    *)
(***************************************************************************)
HasLineOn(entry, accountId) ==
  \E j \in DOMAIN entry.lines : entry.lines[j].accountId = accountId

InRange(entry, startDate, endDate) ==
  /\ Truthy(startDate) => StrLE(startDate, entry.date)
  /\ Truthy(endDate) => StrLE(entry.date, endDate)

C16_AccountFilter ==
  \A accountId \in {1, 12, 14}, startDate \in QueryDateInputs, endDate \in QueryDateInputs :
    getJournalEntriesRoute(accountId, startDate, endDate)
      = SelectSeq(journalEntries,
                  LAMBDA entry : HasLineOn(entry, accountId)
                                 /\ InRange(entry, startDate, endDate))

(***************************************************************************)
(* C17: accountBalance(accountId, asOfDate) is the sum, over the lines on  *)
(* the account in entries with date <= asOfDate (all entries when asOfDate *)
(* is omitted), of debit - credit for an asset or expense account and of   *)
(* credit - debit for a liability, equity or revenue account; it is 0 for  *)
(* an account with no lines.                                               *)
(***************************************************************************)
RECURSIVE SignedSum(_, _, _)
SignedSum(lines, accountId, debitNormal) ==
  IF lines = <<>> THEN 0
  ELSE LET line == Head(lines)
           net == Amount(line.debitAmount) - Amount(line.creditAmount)
       IN (IF line.accountId # accountId THEN 0
           ELSE IF debitNormal THEN net ELSE 0 - net)
          + SignedSum(Tail(lines), accountId, debitNormal)

C17_AccountBalance ==
  \A i \in DOMAIN accounts, asOfDate \in QueryDateInputs :
    accounts[i].type \in AccountTypes
      => getAccountBalance(accounts[i].id, asOfDate)
           = Num(SignedSum(linesOf(entriesAsOf(asOfDate)), accounts[i].id,
                           accounts[i].type \in {"asset", "expense"}))

(***************************************************************************)
(* C18: for every state and every pair of dates s, e, the netIncome of     *)
(* incomeStatement(s, e) equals its revenue total minus its expenses total *)
(* exactly.                                                                *)
(***************************************************************************)
\* a == b on numbers: false when either side is not a number
NumbersEqual(a, b) == IsNum(a) /\ IsNum(b) /\ a.v = b.v

PeriodDateInputs == {"2024-01-15", "2024-02-15", "2024-03-31"}

C18_IncomeStatementIdentity ==
  \A startDate \in PeriodDateInputs, endDate \in PeriodDateInputs :
    LET statement == getIncomeStatement(startDate, endDate)
    IN NumbersEqual(statement.netIncome, JsSub(statement.revenue, statement.expenses))

(***************************************************************************)
(* C19: creating a journal entry and then fetching it by the returned id   *)
(* yields the submitted date and description and, line by line in the      *)
(* same order, the submitted accountId, debitAmount and creditAmount.  On  *)
(* the tool-call surface a line names its account by code and an absent    *)
(* amount stands for 0: the fetched line is on the account of that code.   *)
(***************************************************************************)
C19_CreateFetchRoundTrip ==
  (IsCreateEntry(request) /\ ~Failed(response))
    => /\ findIndex(journalEntries, createdEntryId) # 0
       /\ LET fetched == getJournalEntryById(createdEntryId)
              submitted == request.body
          IN /\ fetched.date = submitted.date
             /\ fetched.description = submitted.description
             /\ Len(fetched.lines) = Len(submitted.lines)
             /\ \A i \in DOMAIN submitted.lines :
                  IF request.op = "POST /journal-entries"
                  THEN SubmittedLine(fetched.lines[i]) = submitted.lines[i]
                  ELSE /\ LiveCode(submitted.lines[i].accountCode)
                       /\ fetched.lines[i].accountId
                            = getAccountByCode(submitted.lines[i].accountCode).id
                       /\ fetched.lines[i].debitAmount
                            = Num(Amount(submitted.lines[i].debitAmount))
                       /\ fetched.lines[i].creditAmount
                            = Num(Amount(submitted.lines[i].creditAmount))

\* a second entry has been created through the REST surface, after a first
\* one of another date
C19_Witness ==
  /\ request.op = "POST /journal-entries"
  /\ response.status = 201
  /\ Len(journalEntries) = 2
  /\ journalEntries[1].date # journalEntries[2].date
  /\ getJournalEntryById(createdEntryId).lines[1].debitAmount = Num(Yen(10000))

(***************************************************************************)
(* C20: tAccount(accountId, asOfDate) returns exactly one row per journal  *)
(* line on the account in entries with date <= asOfDate (all entries when  *)
(* asOfDate is omitted), each carrying its entry's id, date and            *)
(* description and the line's debit and credit, ordered by ascending date  *)
(* with same-date rows in entry insertion order.                           *)
(***************************************************************************)
\* the bijections between the places of two sequences of the same length
Arrangements(n) == {p \in [1..n -> 1..n] : \A i, j \in 1..n : p[i] = p[j] => i = j}

\* returned is an arrangement of rows in which dates ascend and rows of
\* one date keep their order
DateOrdered(returned, rows) ==
  /\ Len(returned) = Len(rows)
  /\ \E p \in Arrangements(Len(rows)) :
       /\ \A i \in DOMAIN rows : returned[i] = rows[p[i]]
       /\ \A i, j \in DOMAIN rows :
            (i < j /\ returned[i].date # Undef /\ returned[j].date # Undef)
              => /\ DateRank(returned[i].date) <= DateRank(returned[j].date)
                 /\ returned[i].date = returned[j].date => p[i] < p[j]

C20_TAccountRows ==
  \A accountId \in {1, 12, 14}, asOfDate \in QueryDateInputs :
    hasAccountById(accountId)
      => /\ getTAccountEntries(accountId, asOfDate).status = 200
         /\ DateOrdered(getTAccountEntries(accountId, asOfDate).entries,
                        rowsOf(entriesAsOf(asOfDate), accountId))

(***************************************************************************)
(* C21: for every reachable state, every live account and every asOfDate   *)
(* (or none), the balance reported by tAccount equals accountBalance for   *)
(* the same account and date, and tAccount's totalDebit and totalCredit    *)
(* are the sums of its rows' debits and credits.                           *)
(***************************************************************************)
RECURSIVE RowDebits(_)
RowDebits(rows) == IF rows = <<>> THEN 0 ELSE Amount(Head(rows).debit) + RowDebits(Tail(rows))

RECURSIVE RowCredits(_)
RowCredits(rows) == IF rows = <<>> THEN 0 ELSE Amount(Head(rows).credit) + RowCredits(Tail(rows))

AllDated == \A i \in DOMAIN journalEntries : journalEntries[i].date # Undef

AllNumeric ==
  \A i \in DOMAIN journalEntries :
    \A j \in DOMAIN journalEntries[i].lines :
      /\ IsNum(journalEntries[i].lines[j].debitAmount)
      /\ IsNum(journalEntries[i].lines[j].creditAmount)

C21_TAccountAgreesWithBalance ==
  \A i \in DOMAIN accounts, asOfDate \in QueryDateInputs :
    LET tAccount == getTAccountRoute(accounts[i].id, asOfDate)
    IN /\ tAccount.status = 200
       /\ NumbersEqual(tAccount.balance, getAccountBalance(accounts[i].id, asOfDate))
       /\ NumbersEqual(tAccount.totalDebit, Num(RowDebits(tAccount.entries)))
       /\ NumbersEqual(tAccount.totalCredit, Num(RowCredits(tAccount.entries)))

(***************************************************************************)
(* C22: after the reset operation, following any sequence of prior         *)
(* operations, the journal store is empty and the accounts are exactly the *)
(* 19 seed accounts with their seed codes, names, types and categories.    *)
(***************************************************************************)
IsReset(req) == req.op \in {"POST /test/reset", "test/reset"}

C22_ResetRestoresSeed ==
  [][IsReset(request')
       => /\ journalEntries' = <<>>
          /\ accounts' = STANDARD_ACCOUNTS
          /\ Len(accounts') = 19
          /\ ~Failed(response')]_vars

\* a reset has been answered after two creations
C22_Witness ==
  /\ IsReset(request)
  /\ uuidCount >= 2
  /\ accounts = STANDARD_ACCOUNTS
  /\ journalEntries = <<>>

(***************************************************************************)
(* Two REST requests in flight.  Express parses the body of a request      *)
(* asynchronously and then runs its handler to completion on the single   *)
(* JavaScript thread: a request is received into a slot (Receive), its     *)
(* handler runs as one step (HandleDelete, HandleCreate) in either order   *)
(* with the other slot's, and the response leaves (Respond).               *)
(***************************************************************************)
\* the requests that meet on one account: deleting cash or the bank
\* account, and recording a balanced entry on either against sales
ConcurrentRequests ==
  { Req("DELETE /accounts/:id", id, <<>>) : id \in {1, 2} }
  \cup
  { Req("POST /journal-entries", 0,
        EntryBody("2024-01-15", "memo", TRUE,
                  << RL(a, Num(Yen(10000)), Num(0)),
                     RL(12, Num(0), Num(Yen(10000))) >>)) : a \in {1, 2} }

Slot(req, res) == [request |-> req, response |-> res]

Unanswered(k) ==
  inflight[k].request # NoRequest /\ inflight[k].response = NoResponse

Receive(k) ==
  /\ inflight[k] = EmptySlot
  /\ \E req \in ConcurrentRequests :
       inflight' = [inflight EXCEPT ![k] = Slot(req, NoResponse)]
  /\ UNCHANGED <<accounts, journalEntries, uuidCount, request, response,
                 buffer, pendingLines, stdout>>

\* DELETE /accounts/:id whose handler gives the thread away between the
\* in-use check and the removal: the first step answers the check, the
\* second removes the account when the check had allowed it
HandleDelete_checkThenRemove(k) ==
  /\ inflight[k].request.op = "DELETE /accounts/:id"
  /\ \/ /\ inflight[k].response = NoResponse
        /\ inflight' = [inflight EXCEPT ![k].response =
             [surface |-> "checked",
              status |-> IF db_deleteAccount_ok(inflight[k].request.id)
                         THEN 204 ELSE 400,
              error |-> "", code |-> 0]]
        /\ UNCHANGED accounts
     \/ /\ inflight[k].response.surface = "checked"
        /\ accounts' = IF inflight[k].response.status = 204
                          /\ findIndex(accounts, inflight[k].request.id) # 0
                       THEN splice(accounts,
                                   findIndex(accounts, inflight[k].request.id))
                       ELSE accounts
        /\ inflight' = [inflight EXCEPT ![k].response =
             IF inflight[k].response.status = 204
             THEN Rest(204, "")
             ELSE Rest(400, "Cannot delete account: not found or in use")]
  /\ UNCHANGED <<journalEntries, uuidCount, request, response,
                 buffer, pendingLines, stdout>>

\* the handler of DELETE /accounts/:id: db.deleteAccount checks and removes
\* in one synchronous call
HandleDelete(k) ==
  /\ Unanswered(k)
  /\ inflight[k].request.op = "DELETE /accounts/:id"
  /\ accounts' = db_deleteAccount(inflight[k].request.id)
  /\ inflight' = [inflight EXCEPT ![k].response =
       IF db_deleteAccount_ok(inflight[k].request.id)
       THEN Rest(204, "")
       ELSE Rest(400, "Cannot delete account: not found or in use")]
  /\ UNCHANGED <<journalEntries, uuidCount, request, response,
                 buffer, pendingLines, stdout>>

\* the handler of POST /journal-entries: the checks and db.createJournalEntry
\* in one synchronous run
HandleCreate(k) ==
  /\ Unanswered(k)
  /\ inflight[k].request.op = "POST /journal-entries"
  /\ LET body == inflight[k].request.body IN
     IF postJournalEntriesError(body) # ""
     THEN /\ inflight' = [inflight EXCEPT ![k].response =
                            Rest(400, postJournalEntriesError(body))]
          /\ UNCHANGED <<journalEntries, uuidCount>>
     ELSE /\ uuidCount < MaxUuids
          /\ journalEntries' =
               db_createJournalEntry(body.date, body.description, body.lines)
          /\ uuidCount' = uuidCount + 1
          /\ inflight' = [inflight EXCEPT ![k].response = Rest(201, "")]
  /\ UNCHANGED <<accounts, request, response, buffer, pendingLines, stdout>>

\* the response is sent and the slot is free again
Respond(k) ==
  /\ inflight[k].response.surface = "rest"
  /\ inflight' = [inflight EXCEPT ![k] = EmptySlot]
  /\ UNCHANGED <<accounts, journalEntries, uuidCount, request, response,
                 buffer, pendingLines, stdout>>

NextConcurrent ==
  \E k \in 1..2 :
    \/ Receive(k)
    \/ HandleDelete(k)
    \/ HandleCreate(k)
    \/ Respond(k)

SpecConcurrent == Init /\ [][NextConcurrent]_vars

\* slot k holds a delete of account a answered with the given status
DeleteAnswered(k, a, status) ==
  /\ inflight[k].request.op = "DELETE /accounts/:id"
  /\ inflight[k].request.id = a
  /\ inflight[k].response = Rest(status, IF status = 204 THEN ""
                 ELSE "Cannot delete account: not found or in use")

\* slot k holds a create with a line on account a answered with the status
CreateAnswered(k, a, status) ==
  /\ inflight[k].request.op = "POST /journal-entries"
  /\ \E i \in DOMAIN inflight[k].request.body.lines :
       inflight[k].request.body.lines[i].accountId = a
  /\ inflight[k].response.surface = "rest"
  /\ inflight[k].response.status = status

\* C23: of a delete of account A and a create of an entry with a line on A
\* that are in flight together, never both succeed, whichever handler runs
\* first, and every stored line keeps referencing an existing account.
C23_NeverBothSucceed ==
  /\ \A i, j \in 1..2 : \A a \in {1, 2} :
       ~(DeleteAnswered(i, a, 204) /\ CreateAnswered(j, a, 201))
  /\ LinesReferenceLiveAccounts

\* the delete ran first and won: the create on the same account was refused
C23_Witness ==
  \E i, j \in 1..2 : \E a \in {1, 2} :
    /\ DeleteAnswered(i, a, 204)
    /\ CreateAnswered(j, a, 400)

(***************************************************************************)
(* Tool-call surface: handleRequest.  A request is the parsed JSON value:  *)
(* json is "object" or "null", id 0 stands for an absent id, hasParams     *)
(* tells whether params is present, name and arguments are its members.    *)
(***************************************************************************)
TOOLS ==
  {"create_journal_entry", "get_account_balance", "list_accounts",
   "generate_balance_sheet", "generate_income_statement"}

\* the arguments of the four reading tools; argsPresent is false when
\* params has no arguments member
QueryArgs(present, code, asOf, type, start, end) ==
  [argsPresent |-> present, accountCode |-> code, asOfDate |-> asOf,
   type |-> type, startDate |-> start, endDate |-> end]

NoArgs == QueryArgs(FALSE, Undef, Undef, Undef, Undef, Undef)

Rpc(id, method, hasParams, name, args) ==
  [json |-> "object", id |-> id, method |-> method, hasParams |-> hasParams,
   name |-> name, arguments |-> args]

\* the JSON text null
JsonNull ==
  [json |-> "null", id |-> 0, method |-> Undef, hasParams |-> FALSE,
   name |-> Undef, arguments |-> NoArgs]

\* the error getAccountBalance (tool) returns in its result, "" when none
getAccountBalanceError(args) ==
  IF ~Truthy(args.accountCode) THEN "accountCode is required"
  ELSE IF ~hasAccountByCode(args.accountCode) THEN "Account not found: "
  ELSE ""

\* the error generateBalanceSheet returns in its result, "" when none
generateBalanceSheetError(args) ==
  IF Truthy(args.asOfDate) /\ ~dateRegexTest(args.asOfDate)
  THEN "Invalid date format. Use YYYY-MM-DD"
  ELSE ""

\* the error generateIncomeStatement returns in its result, "" when none
generateIncomeStatementError(args) ==
  IF ~Truthy(args.startDate) \/ ~Truthy(args.endDate)
    THEN "startDate and endDate are required"
  ELSE IF ~dateRegexTest(args.startDate) \/ ~dateRegexTest(args.endDate)
    THEN "Invalid date format. Use YYYY-MM-DD"
  ELSE ""

\* the error member of the result of the named tool, "" for success: true
toolError(name, args) ==
  CASE name = "create_journal_entry" -> createJournalEntryError(args)
    [] name = "get_account_balance" -> getAccountBalanceError(args)
    [] name = "list_accounts" -> ""
    [] name = "generate_balance_sheet" -> generateBalanceSheetError(args)
    [] name = "generate_income_statement" -> generateIncomeStatementError(args)

\* handleRequest answering an unknown method or tool with Internal error
handleRequest_unknownIsInternal(req) ==
  CASE req.method \in {"initialize", "tools/list", "test/reset"} -> McpResult("")
    [] req.method = "tools/call" ->
         IF ~req.hasParams THEN McpError(0 - 32603, "Internal error")
         ELSE IF req.name \notin TOOLS
           THEN McpError(0 - 32603, "Internal error")
         ELSE IF ~req.arguments.argsPresent
           THEN McpError(0 - 32603, "Internal error")
         ELSE McpResult(toolError(req.name, req.arguments))
    [] OTHER -> McpError(0 - 32603, "Internal error")

\* the response handleRequest returns: destructuring absent params, and a
\* tool destructuring absent arguments, throw inside the try block
handleRequest(req) ==
  CASE req.method \in {"initialize", "tools/list", "test/reset"} -> McpResult("")
    [] req.method = "tools/call" ->
         IF ~req.hasParams THEN McpError(0 - 32603, "Internal error")
         ELSE IF req.name \notin TOOLS
           THEN McpError(0 - 32601, "Method not found: ")
         ELSE IF ~req.arguments.argsPresent
           THEN McpError(0 - 32603, "Internal error")
         ELSE McpResult(toolError(req.name, req.arguments))
    [] OTHER -> McpError(0 - 32601, "Method not found: ")

\* the request reaches db.createJournalEntry
createsEntry(req) ==
  /\ req.method = "tools/call"
  /\ req.hasParams
  /\ req.name = "create_journal_entry"
  /\ req.arguments.argsPresent
  /\ createJournalEntryError(req.arguments) = ""

\* what handleRequest does to the store
handleRequestStore(req) ==
  IF createsEntry(req)
  THEN /\ uuidCount < MaxUuids
       /\ journalEntries' =
            db_createJournalEntry(req.arguments.date, req.arguments.description,
                                  entryLines(req.arguments.lines))
       /\ uuidCount' = uuidCount + 1
       /\ UNCHANGED accounts
  ELSE IF req.method = "test/reset"
  THEN resetDatabase /\ UNCHANGED uuidCount
  ELSE UNCHANGED <<accounts, journalEntries, uuidCount>>

\* requests of a tool client: each reading tool with arguments it accepts,
\* with arguments it refuses and without arguments, create_journal_entry
\* accepted, refused and without arguments, the other methods, an unknown
\* tool, an unknown method, and tools/call without params
RpcInputs ==
  { Rpc(1, "initialize", FALSE, Undef, NoArgs),
    Rpc(1, "tools/list", FALSE, Undef, NoArgs),
    Rpc(1, "test/reset", FALSE, Undef, NoArgs),
    Rpc(1, "no/such/method", FALSE, Undef, NoArgs),
    Rpc(1, "tools/call", FALSE, Undef, NoArgs),
    Rpc(1, "tools/call", TRUE, "no_such_tool",
        QueryArgs(TRUE, "100", Undef, Undef, Undef, Undef)) }
  \cup
  { Rpc(1, "tools/call", TRUE, name, NoArgs) : name \in TOOLS }
  \cup
  { Rpc(1, "tools/call", TRUE, "create_journal_entry", args) :
      args \in { a \in CreateJournalEntryInputs : a.argsPresent } }
  \cup
  { Rpc(1, "tools/call", TRUE, "get_account_balance",
        QueryArgs(TRUE, code, asOf, Undef, Undef, Undef)) :
      code \in {"100", "zzz", Undef}, asOf \in {Undef, "2024-01-15"} }
  \cup
  { Rpc(1, "tools/call", TRUE, "list_accounts",
        QueryArgs(TRUE, Undef, Undef, type, Undef, Undef)) :
      type \in {Undef, "asset"} }
  \cup
  { Rpc(1, "tools/call", TRUE, "generate_balance_sheet",
        QueryArgs(TRUE, Undef, asOf, Undef, Undef, Undef)) :
      asOf \in {Undef, "2024-01-15", "01/15/2024"} }
  \cup
  { Rpc(1, "tools/call", TRUE, "generate_income_statement",
        QueryArgs(TRUE, Undef, Undef, Undef, start, end)) :
      start \in {Undef, "2024-01-15", "01/15/2024"},
      end \in {Undef, "2024-02-15"} }

\* one request of a tool client, handled by handleRequest
HandleRequest ==
  \E req \in RpcInputs :
    /\ Idle
    /\ request' = Req("rpc", 0, req)
    /\ response' = handleRequest(req)
    /\ handleRequestStore(req)
    /\ UNCHANGED <<inflight, buffer, pendingLines, stdout>>

NextTools ==
  \/ HandleRequest
  \/ ClientReadsResponse

SpecTools == Init /\ [][NextTools]_vars

(***************************************************************************)
(* C24: every tools/call naming one of the five tools whose arguments are  *)
(* rejected (absent or missing arguments, a malformed date, an unknown     *)
(* account code, fewer than two lines, unequal totals) is answered with a  *)
(* result {success: false, error} and no error member, and the store is    *)
(* unchanged.                                                              *)
(***************************************************************************)
IsToolCall(req) ==
  /\ req.op = "rpc"
  /\ req.body.method = "tools/call"
  /\ req.body.hasParams
  /\ req.body.name \in TOOLS

\* the arguments break a rule of the tool they are handed to
RejectedArguments(name, args) ==
  CASE name = "create_journal_entry" ->
         \/ ~Truthy(args.date)
         \/ ~Truthy(args.description)
         \/ ~dateRegexTest(args.date)
         \/ Len(args.lines) < 2
         \/ \E i \in DOMAIN args.lines : ~LiveCode(args.lines[i].accountCode)
         \/ Distance(DebitTotal(args.lines), CreditTotal(args.lines)) > Tolerance
    [] name = "get_account_balance" ->
         ~Truthy(args.accountCode) \/ ~LiveCode(args.accountCode)
    [] name = "list_accounts" -> FALSE
    [] name = "generate_balance_sheet" ->
         Truthy(args.asOfDate) /\ ~dateRegexTest(args.asOfDate)
    [] name = "generate_income_statement" ->
         \/ ~Truthy(args.startDate) \/ ~Truthy(args.endDate)
         \/ ~dateRegexTest(args.startDate) \/ ~dateRegexTest(args.endDate)

RejectedToolCall(req) ==
  /\ IsToolCall(req)
  /\ \/ ~req.body.arguments.argsPresent
     \/ RejectedArguments(req.body.name, req.body.arguments)

C24_RejectionInsideResult ==
  [][RejectedToolCall(request')
       => /\ response'.surface = "mcp"
          /\ response'.code = 0
          /\ response'.error # ""
          /\ store' = store]_vars

(***************************************************************************)
(* C25: with the seed chart and the single entry {2024-01-15, debit 100    *)
(* 10000, credit 400 10000}, accountBalance(100) = 10000,                  *)
(* accountBalance(400) = 10000, the trial balance totals are both 10000,   *)
(* and the balance sheet shows assets 10000 and equity 10000.              *)
(***************************************************************************)
CashSaleRecorded ==
  /\ accounts = STANDARD_ACCOUNTS
  /\ Len(journalEntries) = 1
  /\ journalEntries[1].date = "2024-01-15"
  /\ Len(journalEntries[1].lines) = 2
  /\ LET debit == journalEntries[1].lines[1]
         credit == journalEntries[1].lines[2]
     IN /\ debit.accountId = getAccountByCode("100").id
        /\ debit.debitAmount = Num(Yen(10000))
        /\ debit.creditAmount = Num(0)
        /\ credit.accountId = getAccountByCode("400").id
        /\ credit.debitAmount = Num(0)
        /\ credit.creditAmount = Num(Yen(10000))

C25_CashSaleScenario ==
  CashSaleRecorded
    => /\ getAccountBalance(getAccountByCode("100").id, Undef) = Num(Yen(10000))
       /\ getAccountBalance(getAccountByCode("400").id, Undef) = Num(Yen(10000))
       /\ getTrialBalance(Undef).totalDebit = Num(Yen(10000))
       /\ getTrialBalance(Undef).totalCredit = Num(Yen(10000))
       /\ getBalanceSheet(Undef).assets = Num(Yen(10000))
       /\ getBalanceSheet(Undef).equity = Num(Yen(10000))

\* the entry has just been created, on either surface
C25_Witness ==
  /\ CashSaleRecorded
  /\ IsCreateEntry(request)
  /\ ~Failed(response)

(***************************************************************************)
(* C26: on the tool-call surface a request with an unknown method, or a    *)
(* tools/call with an unknown tool name, is answered with error code       *)
(* -32601 and no result, and the store is unchanged.                       *)
(***************************************************************************)
METHODS == {"initialize", "tools/list", "tools/call", "test/reset"}

UnknownMethodOrTool(req) ==
  /\ req.op = "rpc"
  /\ \/ req.body.method \notin METHODS
     \/ /\ req.body.method = "tools/call"
        /\ req.body.hasParams
        /\ req.body.name \notin TOOLS

C26_MethodNotFound ==
  [][UnknownMethodOrTool(request')
       => /\ response'.surface = "mcp"
          /\ response'.code = 0 - 32601
          /\ store' = store]_vars

\* an unknown tool has been refused while an entry is stored
C26_Witness ==
  /\ UnknownMethodOrTool(request)
  /\ request.body.method = "tools/call"
  /\ response.code = 0 - 32601
  /\ journalEntries # <<>>

(***************************************************************************)
(* Tool-call surface: the stdio loop of main.  Text is a sequence of       *)
(* symbols: the newline, a blank, and the two halves of the JSON text of   *)
(* each message.  A line is valid JSON exactly when, blanks around it      *)
(* aside, it is the first half of a message followed by its second half.   *)
(* The data callback runs to completion: StdinData splits the text, and    *)
(* ProcessLine is one turn of its for loop; no chunk is taken while lines  *)
(* are pending.                                                            *)
(***************************************************************************)
NL == [kind |-> "newline", msg |-> 0, part |-> 0]

SP == [kind |-> "blank", msg |-> 0, part |-> 0]

Frag(m, p) == [kind |-> "text", msg |-> m, part |-> p]

\* the JSON values a client writes: four requests, the value null and the
\* empty object
Messages ==
  << Rpc(1, "initialize", FALSE, Undef, NoArgs),
     Rpc(2, "tools/call", TRUE, "create_journal_entry",
         ToolArgs(TRUE, "2024-01-15", "memo",
                  << TL("100", Num(Yen(10000)), Num(0)),
                     TL("400", Num(0), Num(Yen(10000))) >>)),
     Rpc(3, "no/such/method", FALSE, Undef, NoArgs),
     Rpc(4, "test/reset", FALSE, Undef, NoArgs),
     JsonNull,
     Rpc(0, Undef, FALSE, Undef, NoArgs) >>

\* JSON.stringify(Messages[m])
Text(m) == << Frag(m, 1), Frag(m, 2) >>

\* the chunks stdin delivers: each message as one line, a message cut in
\* two chunks, a cut message closed by a newline, blank lines, two lines
\* in one chunk, and a line followed by the start of the next
Chunks ==
  { Text(m) \o << NL >> : m \in DOMAIN Messages }
  \cup
  { << Frag(2, 1) >>, << Frag(2, 2), NL >>, << Frag(2, 2) >>, << NL >>,
    << Frag(1, 1), NL >>,
    << SP, NL >>,
    << SP >> \o Text(1) \o << SP, NL >>,
    << Frag(3, 1), NL >> \o Text(2) \o << NL >>,
    Text(2) \o << NL >> \o Text(4) \o << NL >>,
    Text(1) \o << NL, Frag(4, 1) >>,
    << Frag(4, 2), NL, SP >> \o Text(3) \o << NL >>,
    << Frag(4, 2), NL, SP, NL >> \o Text(3) \o << NL >> }

\* text.split('\n')
RECURSIVE split(_)
split(text) ==
  IF \A i \in DOMAIN text : text[i] # NL THEN << text >>
  ELSE LET i == CHOOSE i \in DOMAIN text :
                  text[i] = NL /\ \A j \in 1..(i - 1) : text[j] # NL
       IN << SubSeq(text, 1, i - 1) >> \o split(SubSeq(text, i + 1, Len(text)))

\* line.trim()
RECURSIVE trim(_)
trim(line) ==
  IF line = <<>> THEN line
  ELSE IF Head(line) = SP THEN trim(Tail(line))
  ELSE IF line[Len(line)] = SP THEN trim(SubSeq(line, 1, Len(line) - 1))
  ELSE line

\* JSON.parse(line) returns
parses(line) == \E m \in DOMAIN Messages : trim(line) = Text(m)

\* the value JSON.parse(line) returns
JSON_parse(line) == Messages[CHOOSE m \in DOMAIN Messages : trim(line) = Text(m)]

\* the id of the parse-error response: null
NullId == 0 - 1

\* a response line: the id member and the result or error member
Out(id, res) == [jsonrpc |-> "2.0", id |-> id, res |-> res]

ParseError == Out(NullId, McpError(0 - 32700, "Parse error"))

\* the try block of the loop throws: JSON.parse on text that is not JSON,
\* handleRequest on null, whose id it reads before its own try block
throws(line) == ~parses(line) \/ JSON_parse(line).json = "null"

\* the lines among these that may call uuidv4
creations(lines) ==
  Cardinality({ i \in DOMAIN lines :
                  /\ parses(lines[i])
                  /\ JSON_parse(lines[i]).name = "create_journal_entry" })

\* the data callback splitting the chunk alone: the text kept from the
\* chunk before is not put in front of it
StdinData_forgetsBuffer ==
  \E chunk \in Chunks :
    LET lines == split(chunk) IN
    /\ pendingLines = <<>>
    /\ Len(lines[Len(lines)]) <= MaxBuffer
    /\ Len(stdout) + Len(lines) - 1 <= MaxStdout
    /\ uuidCount + creations(lines) <= MaxUuids
    /\ buffer' = lines[Len(lines)]
    /\ pendingLines' = SubSeq(lines, 1, Len(lines) - 1)
    /\ UNCHANGED <<accounts, journalEntries, uuidCount, request, response,
                   inflight, stdout>>

\* process.stdin.on('data'): buffer += chunk, the complete lines go to the
\* loop, the text after the last newline stays in buffer
StdinData ==
  \E chunk \in Chunks :
    LET lines == split(buffer \o chunk) IN
    /\ pendingLines = <<>>
    /\ Len(lines[Len(lines)]) <= MaxBuffer
    /\ Len(stdout) + Len(lines) - 1 <= MaxStdout
    /\ uuidCount + creations(lines) <= MaxUuids
    /\ buffer' = lines[Len(lines)]
    /\ pendingLines' = SubSeq(lines, 1, Len(lines) - 1)
    /\ UNCHANGED <<accounts, journalEntries, uuidCount, request, response,
                   inflight, stdout>>

\* the loop giving up the remaining lines of the chunk after a throw
ProcessLine_stopsAfterThrow ==
  /\ pendingLines # <<>>
  /\ LET line == Head(pendingLines) IN
     IF trim(line) = <<>>
     THEN /\ pendingLines' = Tail(pendingLines)
          /\ UNCHANGED <<accounts, journalEntries, uuidCount, stdout>>
     ELSE IF throws(line)
     THEN /\ stdout' = Append(stdout, ParseError)
          /\ pendingLines' = <<>>
          /\ UNCHANGED <<accounts, journalEntries, uuidCount>>
     ELSE /\ stdout' = Append(stdout, Out(JSON_parse(line).id,
                                          handleRequest(JSON_parse(line))))
          /\ pendingLines' = Tail(pendingLines)
          /\ handleRequestStore(JSON_parse(line))
  /\ UNCHANGED <<request, response, inflight, buffer>>

\* one turn of for (const line of lines): a blank line is skipped, a throw
\* is answered with the parse error, a request with handleRequest's response
ProcessLine ==
  /\ pendingLines # <<>>
  /\ LET line == Head(pendingLines) IN
     IF trim(line) = <<>>
     THEN UNCHANGED <<accounts, journalEntries, uuidCount, stdout>>
     ELSE IF throws(line)
     THEN /\ stdout' = Append(stdout, ParseError)
          /\ UNCHANGED <<accounts, journalEntries, uuidCount>>
     ELSE /\ stdout' = Append(stdout, Out(JSON_parse(line).id,
                                          handleRequest(JSON_parse(line))))
          /\ handleRequestStore(JSON_parse(line))
  /\ pendingLines' = Tail(pendingLines)
  /\ UNCHANGED <<request, response, inflight, buffer>>

\* the client takes the responses written so far
ClientReadsStdout ==
  /\ stdout # <<>>
  /\ stdout' = <<>>
  /\ UNCHANGED <<accounts, journalEntries, uuidCount, request, response,
                 inflight, buffer, pendingLines>>

NextStdio ==
  \/ StdinData
  \/ ProcessLine
  \/ ClientReadsStdout

SpecStdio == Init /\ [][NextStdio]_vars

(***************************************************************************)
(* C27: on the tool-call surface an input line that is not a well-formed   *)
(* request is answered with one parse-error response (code -32700),        *)
(* changes no state, and the lines after it are still processed.           *)
(***************************************************************************)
\* the line is JSON text of an object that names a method
WellFormedRequest(line) ==
  /\ parses(line)
  /\ JSON_parse(line).json = "object"
  /\ JSON_parse(line).method # Undef

\* the loop is about to take a line that is not blank
TakesLine == pendingLines # <<>> /\ trim(Head(pendingLines)) # <<>>

C27_MalformedLineParseError ==
  [][(TakesLine /\ ~WellFormedRequest(Head(pendingLines))
        /\ pendingLines' # pendingLines)
       => /\ stdout' = Append(stdout, ParseError)
          /\ store' = store
          /\ pendingLines' = Tail(pendingLines)]_vars

(***************************************************************************)
(* C28: an update leaves every field the patch does not name unchanged:    *)
(* an account updated with only a name keeps its category (and with only a *)
(* category its name), a journal entry updated with only a description     *)
(* keeps its date (and with only a date its description), and its lines.   *)
(***************************************************************************)
AccountPatchFrame ==
  (request'.op = "PUT /accounts/:id" /\ response'.status = 200)
    => \A i \in DOMAIN accounts :
         accounts[i].id = request'.id
           => /\ request'.body.name = Undef => accounts'[i].name = accounts[i].name
              /\ request'.body.category = Undef
                   => accounts'[i].category = accounts[i].category

EntryPatchFrame ==
  (request'.op = "PUT /journal-entries/:id" /\ response'.status = 200)
    => \A i \in DOMAIN journalEntries :
         journalEntries[i].id = request'.id
           => /\ request'.body.date = Undef
                   => journalEntries'[i].date = journalEntries[i].date
              /\ request'.body.description = Undef
                   => journalEntries'[i].description = journalEntries[i].description
              /\ journalEntries'[i].lines = journalEntries[i].lines

C28_UpdateKeepsUnnamedFields ==
  [][AccountPatchFrame /\ EntryPatchFrame]_vars

(***************************************************************************)
(* C29: expense balances enter balance-sheet equity as a reduction: an     *)
(* accepted entry that debits expense accounts and credits asset accounts  *)
(* never increases balanceSheet().equity.total.                            *)
(***************************************************************************)
\* the type of the account a submitted line is on, "" when there is none
SubmittedType(req, line) ==
  IF req.op = "POST /journal-entries"
  THEN IF hasAccountById(line.accountId)
       THEN getAccountById(line.accountId).type ELSE ""
  ELSE IF hasAccountByCode(line.accountCode)
       THEN getAccountByCode(line.accountCode).type ELSE ""

\* a create request whose debits are on expense accounts and whose credits
\* are on asset accounts
ExpensePaid(req) ==
  /\ IsCreateEntry(req)
  /\ req.body.linesIsArray
  /\ \E i \in DOMAIN req.body.lines : Amount(req.body.lines[i].debitAmount) > 0
  /\ \A i \in DOMAIN req.body.lines :
       LET line == req.body.lines[i] IN
       /\ Amount(line.debitAmount) > 0 => SubmittedType(req, line) = "expense"
       /\ Amount(line.creditAmount) > 0 => SubmittedType(req, line) = "asset"

\* balanceSheet().equity.total after the step
EquityAfter ==
  sheetTotals(accounts', balances(linesOf(journalEntries'), zeroMap)).equity

C29_ExpenseReducesEquity ==
  [][(ExpensePaid(request') /\ ~Failed(response'))
       => \/ ~IsNum(getBalanceSheet(Undef).equity)
          \/ ~IsNum(EquityAfter)
          \/ EquityAfter.v <= getBalanceSheet(Undef).equity.v]_vars

(***************************************************************************)
(* C30: every line of every stored entry has a numeric debitAmount and a   *)
(* numeric creditAmount (an amount left out is stored as 0), so            *)
(* accountBalance, trialBalance, balanceSheet and incomeStatement return   *)
(* numbers in every state.                                                 *)
(***************************************************************************)
ReportsNumeric ==
  /\ \A i \in DOMAIN accounts, asOfDate \in QueryDateInputs :
       IsNum(getAccountBalance(accounts[i].id, asOfDate))
  /\ \A asOfDate \in QueryDateInputs :
       /\ IsNum(getTrialBalance(asOfDate).totalDebit)
       /\ IsNum(getTrialBalance(asOfDate).totalCredit)
       /\ IsNum(getBalanceSheet(asOfDate).assets)
       /\ IsNum(getBalanceSheet(asOfDate).liabilities)
       /\ IsNum(getBalanceSheet(asOfDate).equity)
  /\ \A startDate \in PeriodDateInputs, endDate \in PeriodDateInputs :
       /\ IsNum(getIncomeStatement(startDate, endDate).revenue)
       /\ IsNum(getIncomeStatement(startDate, endDate).expenses)
       /\ IsNum(getIncomeStatement(startDate, endDate).netIncome)

C30_AmountsAlwaysNumeric == AllNumeric /\ ReportsNumeric

(***************************************************************************)
(* C31: when asOfDate is omitted the balance endpoint reports asOfDate =   *)
(* today and the balance it returns is accountBalance with asOfDate =      *)
(* today: entries dated after today do not contribute.                     *)
(***************************************************************************)
C31_OmittedDateMeansToday ==
  \A i \in DOMAIN accounts, today \in ClockInputs :
    LET data == getBalanceRoute(accounts[i].id, Undef, today)
    IN /\ data.status = 200
       /\ data.asOfDate = today
       /\ NumbersEqual(data.balance, getAccountBalance(accounts[i].id, today))

(***************************************************************************)
(* C32: deleting an account id that does not exist is answered with        *)
(* NotFound (REST 404), which differs from the Conflict answer (REST 400)  *)
(* given for an account that is in use.                                    *)
(***************************************************************************)
C32_DeleteUnknownNotFound ==
  [][request'.op = "DELETE /accounts/:id"
       => /\ ~Live(request'.id) => response'.status = 404
          /\ (Live(request'.id) /\ Referenced(request'.id))
               => response'.status = 400]_vars

(***************************************************************************)
(* C33: the deletion guard depends only on current references: once every  *)
(* journal entry with a line on account A has been deleted, deleting A      *)
(* succeeds, and A is no longer returned by get, getByCode or list.        *)
(***************************************************************************)
\* deleting the account would succeed and leave no account of its id or code
Deletable(id) ==
  LET left == db_deleteAccount(id)
      code == getAccountById(id).code
  IN /\ db_deleteAccount_ok(id)
     /\ \A i \in DOMAIN left : left[i].id # id /\ left[i].code # code

\* every live account a delete may name and that no stored line references
\* can be deleted, in
\* every state: also in the state reached by deleting the last entry that
\* had a line on it
UnreferencedDeletable ==
  \A id \in DeleteAccountIdInputs :
    (Live(id) /\ ~Referenced(id)) => Deletable(id)

C33_GuardFollowsCurrentReferences ==
  /\ []UnreferencedDeletable
  /\ [][(request'.op = "DELETE /accounts/:id" /\ Live(request'.id)
           /\ ~Referenced(request'.id))
          => /\ response'.status = 204
             /\ \A i \in DOMAIN accounts' :
                  /\ accounts'[i].id # request'.id
                  /\ accounts'[i].code # getAccountById(request'.id).code
             /\ Len(accounts') = Len(accounts) - 1]_vars

\* cash has been deleted after both entries ever created were deleted
C33_Witness ==
  /\ request.op = "DELETE /accounts/:id"
  /\ request.id = 1
  /\ response.status = 204
  /\ ~hasAccountById(1)
  /\ uuidCount = MaxUuids
  /\ \A i \in DOMAIN accounts : accounts[i].id <= Len(STANDARD_ACCOUNTS)
  /\ journalEntries = <<>>

(***************************************************************************)
(* C34: in every reachable state and for every asOfDate (or none), the     *)
(* totalDebit and totalCredit of trialBalance are the sums of debitAmount  *)
(* and creditAmount over all lines of the entries dated up to asOfDate: no *)
(* stored line is left out of the totals.                                  *)
(***************************************************************************)
IncludedLines(asOfDate) ==
  linesOf(SelectSeq(journalEntries, LAMBDA entry : InRange(entry, Undef, asOfDate)))

C34_TrialBalanceRawSums ==
  \A asOfDate \in QueryDateInputs :
    /\ getTrialBalance(asOfDate).totalDebit = Num(DebitTotal(IncludedLines(asOfDate)))
    /\ getTrialBalance(asOfDate).totalCredit = Num(CreditTotal(IncludedLines(asOfDate)))

(***************************************************************************)
(* C35: incomeStatement(startDate, endDate) counts exactly the stored      *)
(* entries with startDate <= date <= endDate: revenue.total is the sum of  *)
(* credit - debit over their lines on revenue accounts, expenses.total the *)
(* sum of debit - credit over their lines on expense accounts; and an      *)
(* entry stays counted in the period of its date after an update that      *)
(* names no new date.                                                      *)
(***************************************************************************)
\* the type of the live account of the id, "" when there is none
TypeOf(id) == IF Live(id) THEN getAccountById(id).type ELSE ""

\* the sum of debit - credit over the lines on accounts of the type
RECURSIVE NetOfType(_, _)
NetOfType(lines, type) ==
  IF lines = <<>> THEN 0
  ELSE (IF TypeOf(Head(lines).accountId) = type
        THEN Amount(Head(lines).debitAmount) - Amount(Head(lines).creditAmount)
        ELSE 0)
       + NetOfType(Tail(lines), type)

PeriodLines(startDate, endDate) ==
  linesOf(SelectSeq(journalEntries, LAMBDA entry : InRange(entry, startDate, endDate)))

IncomeStatementSums ==
  \A startDate \in PeriodDateInputs, endDate \in PeriodDateInputs :
    /\ getIncomeStatement(startDate, endDate).revenue
         = Num(0 - NetOfType(PeriodLines(startDate, endDate), "revenue"))
    /\ getIncomeStatement(startDate, endDate).expenses
         = Num(NetOfType(PeriodLines(startDate, endDate), "expense"))

\* an update without a date leaves the entry in the periods it was in
UpdateKeepsPeriod ==
  (request'.op = "PUT /journal-entries/:id" /\ response'.status = 200
     /\ request'.body.date = Undef)
    => \A i \in DOMAIN journalEntries :
         \A startDate \in PeriodDateInputs, endDate \in PeriodDateInputs :
           InRange(journalEntries[i], startDate, endDate)
             => InRange(journalEntries'[i], startDate, endDate)

C35_IncomeStatementPeriod ==
  /\ []IncomeStatementSums
  /\ [][UpdateKeepsPeriod]_vars

(***************************************************************************)
(* C36: on the tool-call surface every complete non-empty input line       *)
(* yields exactly one response line, responses are written in the order of *)
(* their request lines, and the response to a parsed request carries       *)
(* jsonrpc "2.0" and that request's id.  As stated it fails for a line of  *)
(* blanks, which is not empty and gets no response; it holds for every     *)
(* line that is not blank.                                                 *)
(***************************************************************************)
\* the loop takes its next line in this step
LineTaken == pendingLines # <<>> /\ pendingLines' # pendingLines

\* the step writes exactly one response, after those already written, with
\* jsonrpc "2.0" and, for a line that parses to an object, the object's id
OneResponseInOrder ==
  /\ Len(stdout') = Len(stdout) + 1
  /\ SubSeq(stdout', 1, Len(stdout)) = stdout
  /\ stdout'[Len(stdout')].jsonrpc = "2.0"
  /\ (parses(Head(pendingLines)) /\ JSON_parse(Head(pendingLines)).json = "object")
       => stdout'[Len(stdout')].id = JSON_parse(Head(pendingLines)).id

C36_NonEmptyLineOneResponse ==
  [][LineTaken
       => /\ pendingLines' = Tail(pendingLines)
          /\ Head(pendingLines) # <<>> => OneResponseInOrder]_vars

C36_NonBlankLineOneResponse ==
  [][LineTaken
       => /\ pendingLines' = Tail(pendingLines)
          /\ trim(Head(pendingLines)) # <<>> => OneResponseInOrder
          /\ trim(Head(pendingLines)) = <<>> => stdout' = stdout]_vars

\* the two lines of one chunk have been answered, in their order
C36_Witness ==
  /\ pendingLines = <<>>
  /\ Len(stdout) = 2
  /\ stdout[1] = Out(2, McpResult(""))
  /\ stdout[2] = Out(4, McpResult(""))
  /\ journalEntries = <<>>
  /\ uuidCount > 0

(***************************************************************************)
(* C37: a request line that reaches the tool-call server split across      *)
(* several chunks is processed exactly once, only after its newline has    *)
(* arrived, and with the result it has when it arrives in one chunk; the   *)
(* text after the last newline is kept for the next chunk and is never     *)
(* processed early or twice.                                               *)
(***************************************************************************)
\* the lines, each followed by its newline
RECURSIVE Joined(_)
Joined(lines) ==
  IF lines = <<>> THEN <<>> ELSE Head(lines) \o << NL >> \o Joined(Tail(lines))

NoNewline(text) == \A i \in DOMAIN text : text[i] # NL

\* a chunk arrives in this step
ChunkTaken == buffer' # buffer \/ (pendingLines = <<>> /\ pendingLines' # <<>>)

\* the lines handed to the loop followed by the text kept are the text kept
\* before followed by the chunk: nothing is lost, doubled or reordered, a
\* line handed over is complete, and the text kept holds no newline
TextConserved ==
  /\ \E chunk \in Chunks : Joined(pendingLines') \o buffer' = buffer \o chunk
  /\ NoNewline(buffer')
  /\ \A i \in DOMAIN pendingLines' : NoNewline(pendingLines'[i])

\* a chunk only moves text: to the loop and to the text kept
ChunkOnlyMovesText ==
  [][ChunkTaken
       => /\ TextConserved
          /\ store' = store
          /\ stdout' = stdout]_vars

\* a response is written, and the store changed, only by the loop taking
\* its next complete line, once, and the response is that of the line
OnlyCompleteLinesProcessed ==
  [][((stdout' # stdout /\ stdout' # <<>>) \/ store' # store)
       => /\ pendingLines # <<>>
          /\ pendingLines' = Tail(pendingLines)
          /\ buffer' = buffer
          /\ stdout' = Append(stdout,
                              IF throws(Head(pendingLines)) THEN ParseError
                              ELSE Out(JSON_parse(Head(pendingLines)).id,
                                       handleRequest(JSON_parse(Head(pendingLines)))))]_vars

C37_SplitLineProcessedOnce == ChunkOnlyMovesText /\ OnlyCompleteLinesProcessed

\* the line waiting is one that only the chunk starting with the second
\* half of the reset request brings, and the response before it is that of
\* the reset: the request came in two chunks, its first half at the end of
\* the chunk before, and has been answered
C37_Witness ==
  /\ pendingLines = << << SP >> \o Text(3) >>
  /\ buffer = <<>>
  /\ stdout # <<>>
  /\ stdout[Len(stdout)] = Out(4, McpResult(""))

====
